---- MODULE Spec2Model ----
(***************************************************************************)
(* Model of the concurrent mirroring pipeline of multi-cloud-mirror:       *)
(* ImageProcessor.process_images / _process_single_image                   *)
(* (core/processor.py) driven by the configuration built in main.py and    *)
(* core/config.py and by the registries map of core/mirror.py; and of the  *)
(* program around it: main (main.py), ContainerMirror.validate_setup, run  *)
(* and _load_image_list (core/mirror.py), authenticate_all (core/auth.py), *)
(* the KeyboardInterrupt handler of main, and one push_image call of a     *)
(* registry adapter (registries/*.py) with _parse_image                    *)
(* (registries/base.py), command by command.                               *)
(*                                                                         *)
(* asyncio is cooperative: a coroutine runs without interruption from one  *)
(* await that suspends to the next one.  Each action below is one such     *)
(* uninterrupted stretch of _process_single_image (or of process_images).  *)
(***************************************************************************)
EXTENDS Integers, Sequences, FiniteSets, TLC

\* ------------------------------------------------------------------ bounds
MaxTasks == 3
MaxDests == 2
MaxJobs == 2
MaxRetries == 2
\* destination entries of the whole manifest
MaxEntries == 3
\* lines of the manifest in the runs of the whole program
MaxMainLines == 2
\* lines of the image list file handed to _load_image_list alone
MaxLines == 3

\* smallest values the command line hands over (-r and -j take any int;
\* asyncio.Semaphore refuses a negative value, so the program never gets
\* further than construction with max_parallel_jobs < 0)
MinRetries == 0 - 1
MinJobs == 0

\* ------------------------------------------------------- program constants
\* RETRY_DELAY default of ConfigManager.load_config
DefaultRetryDelay == 5

\* valid_targets of ContainerMirror._load_image_list
valid_targets == <<"ECR", "GAR", "ACR", "JFROG", "DOCR">>

\* destination tags that the bounded manifests of this model use
ManifestTags == {"ECR", "GAR"}

\* what a push_image call can do, seen from the awaiting coroutine:
\* return True, return False, raise an Exception, or raise a BaseException
\* that is not an Exception (asyncio.CancelledError, GeneratorExit)
PushOutcomes == {"true", "false", "exception", "base_exception"}

\* values of gather(..., return_exceptions=True): True, False, or the
\* exception object of a task that raised
NoResult == "pending"

\* process_images has not built its MirrorResult yet
NoMirrorResult ==
  [total_images |-> 0 - 1, successful_images |-> 0 - 1, failed_images |-> 0 - 1]

VARIABLES
  config,        \* Config: max_parallel_jobs, max_retries, retry_delay, ...
  registries,    \* ContainerMirror.registries: the set of its keys
  images,        \* the parsed image list handed to process_images
  main_pc,       \* position of process_images
  mirror_result, \* the MirrorResult it returned
  results,       \* gather results, one per coroutine
  sem_value,     \* ImageProcessor.semaphore._value
  sem_waiters,   \* ImageProcessor.semaphore._waiters (FIFO of tasks)
  pc,            \* position of each _process_single_image coroutine
  attempt,       \* its loop variable `attempt`
  idx,           \* index of the destination whose push_image is awaited
  success,       \* its local `success`
  outs,          \* history: outcome per destination of the latest attempt
  prevTrue,      \* history: destinations whose push returned True in the
                 \*          attempt before the current one
  nattempts,     \* history: attempts begun (the debug line of each attempt)
  delays,        \* history: the arguments of the asyncio.sleep calls made
  entered,       \* history: times the coroutine got into `async with`
  validate_only, \* the --validate flag of main
  image_list_file, \* the lines of the image list file, None without a file
  run_pc,        \* position of main (in validate_setup or in run)
  warnings,      \* the logger.warning calls of _load_image_list
  auth_calls,    \* history: the invocations of authenticate_all, each
                 \* with the `success` of its result
  error,         \* message of the failed validation or of the exception
                 \* that main caught
  exit_code,     \* exit status of the process, NotExited while it runs
  checks,        \* history: the checks validate_setup has run, in order,
                 \* each with whether it passed
  call           \* a push_image call of an adapter: its locals, the
                 \* commands it has run and what it returned

\* the state of main, validate_setup and run
frontVars == <<validate_only, image_list_file, run_pc, warnings, auth_calls,
               error, exit_code, checks>>

vars == <<config, registries, images, main_pc, mirror_result, results,
          sem_value, sem_waiters, pc, attempt, idx, success, outs, prevTrue,
          nattempts, delays, entered, frontVars, call>>

\* ----------------------------------------------------------------- helpers
RECURSIVE SeqsUpTo(_, _)
SeqsUpTo(S, n) ==
  IF n = 0 THEN {<<>>}
  ELSE LET shorter == SeqsUpTo(S, n - 1)
       IN shorter \cup {Append(s, x) : s \in {q \in shorter : Len(q) = n - 1}, x \in S}

Range(s) == {s[i] : i \in 1..Len(s)}

\* str.strip() on a destination tag.  The tags of this model are the
\* tokens of a manifest line split on whitespace and on ',', and then
\* stripped by the parser, so the only padded forms listed are those of the
\* tags themselves.
Strip(d) ==
  CASE d = " ECR" -> "ECR"
    [] d = "ECR " -> "ECR"
    [] d = " GAR" -> "GAR"
    [] d = "GAR " -> "GAR"
    [] OTHER -> d

\* Optional[T]: None, or a value
None == <<>>
Some(v) == <<v>>

\* `if x:` for an Optional[List[str]] and for an Optional[str]: None and
\* the empty list or string count as false
truthy_list(x) == x # None /\ x[1] # <<>>
truthy_str(x) == x # None /\ x[1] # ""

\* values of the configuration fields that select the adapters
Regions == Some(<<"us-east-1">>)
Url == Some("https://example.jfrog.io")
Token == Some("dop_v1_token")

\* (variant: the fields are tested with `is not None`)
_initialize_registries_not_none(cfg) ==
  (IF cfg.ecr_regions # None THEN {"ECR"} ELSE {})
    \cup (IF cfg.gcp_regions # None THEN {"GAR"} ELSE {})
    \cup (IF cfg.azure_regions # None THEN {"ACR"} ELSE {})
    \cup (IF cfg.jfrog_url # None THEN {"JFROG"} ELSE {})
    \cup (IF cfg.docr_token # None THEN {"DOCR"} ELSE {})

\* ContainerMirror._initialize_registries: one adapter per configured kind
_initialize_registries(cfg) ==
  (IF truthy_list(cfg.ecr_regions) THEN {"ECR"} ELSE {})
    \cup (IF truthy_list(cfg.gcp_regions) THEN {"GAR"} ELSE {})
    \cup (IF truthy_list(cfg.azure_regions) THEN {"ACR"} ELSE {})
    \cup (IF truthy_str(cfg.jfrog_url) THEN {"JFROG"} ELSE {})
    \cup (IF truthy_str(cfg.docr_token) THEN {"DOCR"} ELSE {})

\* Config as built by main (click options) and ConfigManager.load_config.
\* _parse_regions gives None or the list of the regions; the bounded
\* configurations set ECR_MIRROR_AWS_REGIONS or nothing, so a GAR
\* destination is a valid tag without an adapter.
Configs ==
  [max_parallel_jobs : MinJobs..MaxJobs,
   max_retries : MinRetries..MaxRetries,
   retry_delay : {DefaultRetryDelay},
   ecr_regions : {None, Regions},
   gcp_regions : {None},
   azure_regions : {None},
   jfrog_url : {None},
   docr_token : {None}]

\* ------------------------------------------------------- the manifest file
\* A line of the image list file is a sequence of atoms: a whitespace
\* character, one of the characters '#', '-' and ',', or a run of other
\* characters (a word, which holds none of the former).  The line
\* terminator is left out.
WhiteSpace == {" ", "\t"}

\* str.strip() of a line or of a segment: whitespace off both ends
RECURSIVE lstrip(_)
lstrip(a) ==
  IF a # <<>> /\ a[1] \in WhiteSpace THEN lstrip(Tail(a)) ELSE a

RECURSIVE rstrip(_)
rstrip(a) ==
  IF a # <<>> /\ a[Len(a)] \in WhiteSpace
  THEN rstrip(SubSeq(a, 1, Len(a) - 1))
  ELSE a

strip(a) == rstrip(lstrip(a))

\* str.startswith
startswith(a, prefix) ==
  Len(a) >= Len(prefix) /\ SubSeq(a, 1, Len(prefix)) = prefix

\* the atoms of a back to the text they stand for
RECURSIVE Join(_)
Join(a) == IF a = <<>> THEN "" ELSE a[1] \o Join(Tail(a))

\* str.split(sep) for a separator of one character: the pieces between the
\* separators, empty ones kept
RECURSIVE split_on(_, _, _)
split_on(a, sep, piece) ==
  IF a = <<>> THEN <<piece>>
  ELSE IF a[1] = sep THEN <<piece>> \o split_on(Tail(a), sep, <<>>)
  ELSE split_on(Tail(a), sep, Append(piece, a[1]))

\* str.split(): the runs of characters between whitespace, none empty
RECURSIVE split(_, _)
split(a, piece) ==
  LET done == IF piece = <<>> THEN <<>> ELSE <<piece>>
  IN IF a = <<>> THEN done
     ELSE IF a[1] \in WhiteSpace THEN done \o split(Tail(a), <<>>)
     ELSE split(Tail(a), Append(piece, a[1]))

\* (variant: every tag has to be a valid target)
any_valid_all(dest_targets) ==
  \A i \in 1..Len(dest_targets) : dest_targets[i] \in Range(valid_targets)

\* _load_image_list, line 147: any(target in valid_targets for ...)
any_valid(dest_targets) ==
  \E i \in 1..Len(dest_targets) : dest_targets[i] \in Range(valid_targets)

\* (variant: tags that are no valid target are dropped from the task)
dest_targets_filtered(dest) ==
  LET segs == split_on(dest, ",", <<>>)
      all == [i \in 1..Len(segs) |-> Join(strip(segs[i]))]
  IN SelectSeq(all, LAMBDA d : d \in Range(valid_targets))

\* _load_image_list, line 145: [d.strip() for d in dest.split(',')]
dest_targets_of(dest) ==
  LET segs == split_on(dest, ",", <<>>)
  IN [i \in 1..Len(segs) |-> Join(strip(segs[i]))]

\* (variant: the line number counts the lines that were not skipped)
line_num_of_parsed(lines, n) ==
  Cardinality({i \in 1..n :
     LET l == strip(lines[i])
     IN ~(l = <<>> \/ startswith(l, <<"#">>) \/ startswith(l, <<"-", "-">>))})

\* _load_image_list, line 128: enumerate(f, 1)
line_num_of(lines, n) == n

\* _load_image_list, lines 129-155, for line n of the file: what the loop
\* body adds to `images` and what it logs as a warning
parse_line(lines, n) ==
  LET line == strip(lines[n])
      line_num == line_num_of(lines, n)
      parts == split(line, <<>>)
      dest_targets == dest_targets_of(parts[1])
  IN IF line = <<>> \/ startswith(line, <<"#">>)
          \/ startswith(line, <<"-", "-">>)
     THEN [images |-> <<>>, warnings |-> <<>>]
     ELSE IF Len(parts) < 2
     THEN [images |-> <<>>,
           warnings |-> <<[line |-> line_num, text |-> "Invalid format"]>>]
     ELSE IF ~any_valid(dest_targets)
     THEN [images |-> <<>>,
           warnings |-> <<[line |-> line_num,
                           text |-> "Invalid destination"]>>]
     ELSE [images |-> <<[destinations |-> dest_targets,
                         source |-> Join(parts[2]),
                         line_number |-> line_num]>>,
           warnings |-> <<>>]

\* _load_image_list, lines 125-157: the loop over the lines of the file
RECURSIVE load_lines(_, _)
load_lines(lines, n) ==
  IF n > Len(lines) THEN [images |-> <<>>, warnings |-> <<>>]
  ELSE LET one == parse_line(lines, n)
           rest == load_lines(lines, n + 1)
       IN [images |-> one.images \o rest.images,
           warnings |-> one.warnings \o rest.warnings]

_load_image_list(lines) == load_lines(lines, 1)

\* the lines the bounded manifests are made of
ManifestLines ==
  {<<>>,
   <<" ">>,
   <<"#", " ", "ECR", " ", "docker.io/library/nginx:latest">>,
   <<"#", ",", "ECR", " ", "docker.io/library/nginx:latest">>,
   <<"-", "-", " ", "GAR", " ", "section">>,
   <<"-", "ECR", " ", "docker.io/library/nginx:latest">>,
   <<"ECR">>,
   <<"ECR", " ", "docker.io/library/nginx:latest">>,
   <<" ", "GAR", ",", "ECR", "\t", "docker.io/library/redis:6", " ">>,
   <<"ECR", ",", "ECR", " ", "quay.io/prometheus/prometheus:v2.40.0">>,
   <<"GAR", " ", "invalid", "-", "format">>,
   <<"INVALID", " ", "docker.io/nginx:latest">>,
   <<"ecr", " ", "docker.io/nginx:latest">>,
   <<"ECR", ",", "INVALID", " ", "docker.io/nginx:latest">>,
   <<"INVALID", ",", "GAR", " ", "docker.io/nginx:latest", " ", "extra">>,
   <<"GAR", ",", " ", "docker.io/nginx:latest">>}

\* the text of the line that an accepted line of the manifest had
RECURSIVE JoinTags(_)
JoinTags(dests) ==
  IF Len(dests) <= 1 THEN dests
  ELSE <<dests[1], ",">> \o JoinTags(Tail(dests))

LineOf(image) == JoinTags(image.destinations) \o <<" ", image.source>>

\* destination lists the parser can emit: non-empty, at least one valid tag
DestLists ==
  {d \in SeqsUpTo(ManifestTags, MaxDests) :
     Len(d) >= 1 /\ \E i \in 1..Len(d) : d[i] \in Range(valid_targets)}

\* sequences of at most n destination lists with at most e entries in all
RECURSIVE DestSeqs(_, _)
DestSeqs(n, e) ==
  IF n = 0 THEN {<<>>}
  ELSE {<<>>} \cup
       UNION {{<<d>> \o r : r \in DestSeqs(n - 1, e - Len(d))} :
                d \in {x \in DestLists : Len(x) <= e}}

\* image lists: one dict per accepted manifest line
ImageLists ==
  {[i \in 1..Len(ds) |->
      [destinations |-> ds[i],
       source |-> "docker.io/library/nginx:latest",
       line_number |-> i]] : ds \in DestSeqs(MaxTasks, MaxEntries)}

Tasks == 1..Len(images)

\* (variant: a gate one permit too wide)
SemaphoreInitOneMore(cfg) == cfg.max_parallel_jobs + 1

\* ImageProcessor.__init__, line 24: asyncio.Semaphore(max_parallel_jobs)
SemaphoreInit(cfg) == cfg.max_parallel_jobs

\* (variant: the comprehension stops one task short)
CoroutinesButLast == 1..(Len(images) - 1)

\* process_images, lines 40-43: one coroutine per task of the list
Coroutines == Tasks

\* (variant: `if r`, which takes an exception object for a success)
successful_images_truthy(res) ==
  Cardinality({t \in DOMAIN res : res[t] \in {"True", "Exception"}})

\* process_images, line 49: sum(1 for r in results if r is True)
successful_images(res) == Cardinality({t \in DOMAIN res : res[t] = "True"})

\* (variant: `if r is False`, which forgets the tasks that raised)
failed_images_is_false(res) ==
  Cardinality({t \in DOMAIN res : res[t] = "False"})

\* process_images, line 50: sum(1 for r in results if r is not True)
failed_images(res) == Cardinality({t \in DOMAIN res : res[t] # "True"})

\* ------------------------------------------------- registries: push_image
\* regions of one configured list
MaxRegions == 2
\* atoms of a source image reference handed to _parse_image alone
MaxSourceLen == 5
\* push_image calls of one adapter for one source (the attempts of a task)
MaxRuns == 2

\* A source image reference is a sequence of atoms: one of the characters
\* '/' and ':', or a run of other characters (a word).  It is a token of a
\* manifest line, so it holds no whitespace and no line terminator.
SourceAtoms == {"/", ":", "a", "b"}

\* indices of the atoms of a that are the character ch
Positions(a, ch) == {i \in 1..Len(a) : a[i] = ch}

Min(S) == CHOOSE x \in S : \A y \in S : x <= y
Max(S) == CHOOSE x \in S : \A y \in S : x >= y

\* (variant: a lazy first group, (.+?), which stops at the first ':')
re_match_lazy(source) ==
  LET slashes == Positions(source, "/")
      s == Min(slashes)
      colons == {k \in Positions(source, ":") : k > s + 1 /\ k < Len(source)}
      k == Min(colons)
  IN IF slashes = {} \/ colons = {} THEN None
     ELSE Some([group1 |-> SubSeq(source, s + 1, k - 1),
                group2 |-> SubSeq(source, k + 1, Len(source))])

\* _parse_image, line 21: re.match(r'^[^/]*/(.+):(.+)$', source).  [^/]*
\* ends at the first '/'; the greedy (.+) gives way from the right until a
\* ':' with at least one character on either side is found.
re_match(source) ==
  LET slashes == Positions(source, "/")
      s == Min(slashes)
      colons == {k \in Positions(source, ":") : k > s + 1 /\ k < Len(source)}
      k == Max(colons)
  IN IF slashes = {} \/ colons = {} THEN None
     ELSE Some([group1 |-> SubSeq(source, s + 1, k - 1),
                group2 |-> SubSeq(source, k + 1, Len(source))])

\* sep.join(parts)
RECURSIVE join_with(_, _)
join_with(parts, sep) ==
  IF parts = <<>> THEN <<>>
  ELSE IF Len(parts) = 1 THEN parts[1]
  ELSE parts[1] \o <<sep>> \o join_with(Tail(parts), sep)

\* BaseRegistry._parse_image: (repo, tag) of a source image reference
_parse_image(source) ==
  LET match == re_match(source)
      parts == split_on(source, ":", <<>>)
      joined == join_with(SubSeq(parts, 1, Len(parts) - 1), ":")
      repo == IF Positions(joined, "/") # {}
              THEN join_with(Tail(split_on(joined, "/", <<>>)), "/")
              ELSE joined
  IN IF match # None
     THEN [repo |-> match[1].group1, tag |-> match[1].group2]
     ELSE IF Positions(source, ":") # {}
     THEN [repo |-> repo, tag |-> parts[Len(parts)]]
     ELSE [repo |-> source, tag |-> <<"latest">>]

\* no push_image call is being looked at
NoCall ==
  [kind |-> "", pc |-> "idle", run |-> 0, source |-> <<>>, repo |-> <<>>,
   tag |-> <<>>, region |-> 0, total_regions |-> 0, success_count |-> 0,
   account_id |-> "", result |-> "none", copies |-> <<>>, before |-> <<>>,
   steps |-> <<>>]

\* how an Optional[str] reads inside an f-string
Str(x) == IF x = None THEN "None" ELSE x[1]

\* `x or default` for an Optional[str]
or_else(x, default) == IF truthy_str(x) THEN x[1] ELSE default

\* the list a push_image loops over (JFrogRegistry has no loop: it makes its
\* one copy)
regions_of(kind, cfg) ==
  CASE kind = "ECR" -> cfg.ecr_regions[1]
    [] kind = "GAR" -> cfg.gcp_regions[1]
    [] kind = "ACR" -> cfg.azure_regions[1]
    [] kind = "DOCR" -> IF truthy_list(cfg.docr_regions)
                        THEN cfg.docr_regions[1] ELSE <<"nyc3">>
    [] OTHER -> <<>>

\* the first command of the loop body of each push_image
first_step(kind) ==
  CASE kind = "ECR" -> "identity"
    [] kind = "GAR" -> "describe"
    [] kind = "ACR" -> "describe"
    [] OTHER -> "copy"

\* the command that follows a repository that exists or was created
after_provisioning(kind) == IF kind = "ACR" THEN "login" ELSE "copy"

\* ECRRegistry.push_image, line 27: the host is named after the account
\* that `aws sts get-caller-identity` printed
ecr_url(cfg, region, account_id) ==
  account_id \o ".dkr.ecr." \o region \o ".amazonaws.com"

\* the registry host and path of each push_image
registry_url(kind, cfg, region, account_id) ==
  CASE kind = "ECR" -> ecr_url(cfg, region, account_id)
    [] kind = "GAR" ->
         region \o "-docker.pkg.dev/" \o Str(cfg.gcp_project_id)
           \o "/k8s-assets"
    [] kind = "ACR" ->
         or_else(cfg.azure_acr_name,
                 or_else(cfg.azure_acr_name_prefix, "org") \o "acr" \o region)
           \o ".azurecr.io"
    [] kind = "DOCR" ->
         "registry.digitalocean.com/" \o Str(cfg.docr_registry_name)
    [] OTHER ->
         Str(cfg.jfrog_url) \o "/artifactory/"
           \o or_else(cfg.jfrog_repository, "docker-local")

\* target = f"{url}/{repo}:{tag}"
target_of(kind, cfg, region, account_id, repo, tag) ==
  registry_url(kind, cfg, region, account_id)
    \o "/" \o Join(repo) \o ":" \o Join(tag)

\* (variant: one copied region is enough)
any_region(c) == c.success_count >= 1

\* the return statement of the looping push_image:
\* success_count == total_regions
all_regions(c) == c.success_count = c.total_regions

\* the for statement of push_image takes the next region of the list, or
\* the loop is over and push_image returns
next_region(c, cfg) ==
  IF c.region < Len(regions_of(c.kind, cfg))
  THEN [c EXCEPT !.region = @ + 1, !.pc = first_step(c.kind),
                 !.account_id = ""]
  ELSE [c EXCEPT !.pc = "returned",
                 !.result = IF all_regions(c) THEN "true" ELSE "false"]

\* ------------------------------------------------------------------ Init
\* exit_code of a process that has not exited
NotExited == 0 - 1

\* run has authenticated, has loaded the image list and is at line 106, the
\* call of process_images
InitWith(cfgs, lists) ==
  /\ config \in cfgs
  /\ registries = _initialize_registries(config)
  /\ images \in lists
  /\ main_pc = "ready"
  /\ mirror_result = NoMirrorResult
  /\ results = [t \in Tasks |-> NoResult]
  /\ sem_value = SemaphoreInit(config)
  /\ sem_waiters = <<>>
  /\ pc = [t \in Tasks |-> "none"]
  /\ attempt = [t \in Tasks |-> 0]
  /\ idx = [t \in Tasks |-> 0]
  /\ success = [t \in Tasks |-> TRUE]
  /\ outs = [t \in Tasks |-> <<>>]
  /\ prevTrue = [t \in Tasks |-> {}]
  /\ nattempts = [t \in Tasks |-> 0]
  /\ delays = [t \in Tasks |-> <<>>]
  /\ entered = [t \in Tasks |-> 0]
  /\ validate_only = FALSE
  /\ image_list_file = Some([t \in Tasks |-> LineOf(images[t])])
  /\ run_pc = "process_images"
  /\ warnings = <<>>
  /\ auth_calls = <<TRUE>>
  /\ error = ""
  /\ exit_code = NotExited
  /\ checks = <<>>
  /\ call = NoCall

\* the state in which run calls process_images, for the bounded
\* configurations and manifests
Init == InitWith(Configs, ImageLists)

\* the same with one or two adapters (ECR, GAR) behind a gate of one permit,
\* for manifests of at most two lines
AdapterConfigs ==
  [max_parallel_jobs : {1},
   max_retries : 1..MaxRetries,
   retry_delay : {DefaultRetryDelay},
   ecr_regions : {None, Regions},
   gcp_regions : {None, Regions},
   azure_regions : {None},
   jfrog_url : {None},
   docr_token : {None}]

InitAdapters ==
  InitWith(AdapterConfigs, {im \in ImageLists : Len(im) <= 2})

\* process_images, lines 30-46: build the tasks and the coroutines and
\* hand them to asyncio.gather
ProcessImages ==
  /\ main_pc = "ready"
  /\ main_pc' = "gathering"
  /\ pc' = [t \in Tasks |-> IF t \in Coroutines THEN "created" ELSE "none"]
  /\ UNCHANGED <<config, registries, images, mirror_result, results,
                 sem_value, sem_waiters, attempt, idx, success, outs,
                 prevTrue, nattempts, delays, entered, frontVars, call>>

\* ------------------------------------------------ asyncio.Semaphore
\* The semaphore with the set of waiters whose future has been set
\* (they hold a permit already but have not run yet).
Sem ==
  [value |-> sem_value, waiters |-> sem_waiters,
   woken |-> {t \in Tasks : pc[t] = "granted"}]

\* Semaphore.locked
locked(s) == s.value = 0 \/ s.waiters # <<>>

\* Semaphore._wake_up_next: the first waiter that is not done gets the permit
_wake_up_next(s) ==
  LET pending == {i \in 1..Len(s.waiters) : s.waiters[i] \notin s.woken}
  IN IF pending = {} THEN s
     ELSE LET first == CHOOSE i \in pending : \A j \in pending : i <= j
          IN [s EXCEPT !.value = @ - 1, !.woken = @ \cup {s.waiters[first]}]

\* (variant: release gives the permit back and wakes nobody)
releaseWithoutWakeUp(s) == [s EXCEPT !.value = @ + 1]

\* Semaphore.release
release(s) == _wake_up_next([s EXCEPT !.value = @ + 1])

\* ----------------------------------------- _process_single_image, pieces
\* the ImageTask built from images[t]
Dests(t) == images[t].destinations

\* (variant: a destination whose push returned True in the attempt before
\* is remembered and not pushed again)
RECURSIVE ScanMemo(_, _, _, _)
ScanMemo(t, i, s, o) ==
  LET wasTrue == IF pc[t] = "sleep"
                 THEN i <= Len(outs[t]) /\ outs[t][i] = "true"
                 ELSE i \in prevTrue[t]
  IN IF i > Len(Dests(t)) THEN [idx |-> i, success |-> s, outs |-> o]
     ELSE IF Strip(Dests(t)[i]) \notin registries
          THEN ScanMemo(t, i + 1, FALSE, Append(o, "unknown"))
          ELSE IF wasTrue
               THEN ScanMemo(t, i + 1, s, Append(o, "skipped"))
               ELSE [idx |-> i, success |-> s, outs |-> o]

\* (variant: a destination without adapter is skipped silently)
RECURSIVE ScanIgnoresUnknown(_, _, _, _)
ScanIgnoresUnknown(t, i, s, o) ==
  IF i > Len(Dests(t)) THEN [idx |-> i, success |-> s, outs |-> o]
  ELSE IF Strip(Dests(t)[i]) \notin registries
       THEN ScanIgnoresUnknown(t, i + 1, s, Append(o, "unknown"))
       ELSE [idx |-> i, success |-> s, outs |-> o]

\* (variant: a destination without adapter ends the attempt: break)
ScanBreaksOnUnknown(t, i, s, o) ==
  IF i > Len(Dests(t)) THEN [idx |-> i, success |-> s, outs |-> o]
  ELSE IF Strip(Dests(t)[i]) \notin registries
       THEN [idx |-> Len(Dests(t)) + 1, success |-> FALSE,
             outs |-> Append(o, "unknown")]
       ELSE [idx |-> i, success |-> s, outs |-> o]

\* (variant: a task that names a destination without adapter fails its
\* attempt at once, without a push)
ScanFailsFast(t, i, s, o) ==
  IF \E j \in 1..Len(Dests(t)) : Strip(Dests(t)[j]) \notin registries
  THEN [idx |-> Len(Dests(t)) + 1, success |-> FALSE,
        outs |-> [j \in 1..Len(Dests(t)) |->
                    IF Strip(Dests(t)[j]) \notin registries
                    THEN "unknown" ELSE "skipped"]]
  ELSE [idx |-> i, success |-> s, outs |-> o]

\* (variant: a tag that the attempt has come by already is not pushed a
\* second time)
RECURSIVE ScanSkipsDuplicates(_, _, _, _)
ScanSkipsDuplicates(t, i, s, o) ==
  IF i > Len(Dests(t)) THEN [idx |-> i, success |-> s, outs |-> o]
  ELSE IF Strip(Dests(t)[i]) \notin registries
       THEN ScanSkipsDuplicates(t, i + 1, FALSE, Append(o, "unknown"))
       ELSE IF \E j \in 1..(i - 1) : Dests(t)[j] = Dests(t)[i]
            THEN ScanSkipsDuplicates(t, i + 1, s, Append(o, "skipped"))
            ELSE [idx |-> i, success |-> s, outs |-> o]

\* lines 67-73: walk the destinations from index i up to the next one that
\* has an adapter; every destination without one clears `success`
RECURSIVE Scan(_, _, _, _)
Scan(t, i, s, o) ==
  IF i > Len(Dests(t)) THEN [idx |-> i, success |-> s, outs |-> o]
  ELSE IF Strip(Dests(t)[i]) \notin registries
       THEN Scan(t, i + 1, FALSE, Append(o, "unknown"))
       ELSE [idx |-> i, success |-> s, outs |-> o]

\* (variant: the sleep is not guarded by `attempt < max_retries`)
FoldSleepsAfterLast(a, s) ==
  IF s THEN [pc |-> "done", result |-> "True", sleep |-> FALSE]
  ELSE [pc |-> "sleep", result |-> NoResult, sleep |-> TRUE]

\* (variant: range(1, max_retries), one attempt short)
FoldGivesUpEarly(a, s) ==
  IF s THEN [pc |-> "done", result |-> "True", sleep |-> FALSE]
  ELSE IF a < config.max_retries - 1
       THEN [pc |-> "sleep", result |-> NoResult, sleep |-> TRUE]
       ELSE [pc |-> "done", result |-> "False", sleep |-> FALSE]

\* (variant: one circuit breaker for the whole run - once a task has given
\* up, no task sleeps and retries any more)
FoldSharedBudget(a, s) ==
  IF s THEN [pc |-> "done", result |-> "True", sleep |-> FALSE]
  ELSE IF a < config.max_retries /\ \A u \in Tasks : results[u] # "False"
       THEN [pc |-> "sleep", result |-> NoResult, sleep |-> TRUE]
       ELSE [pc |-> "done", result |-> "False", sleep |-> FALSE]

\* lines 79-88 and 95-96: the end of attempt a with the flag s
Fold(a, s) ==
  IF s THEN [pc |-> "done", result |-> "True", sleep |-> FALSE]
  ELSE IF a < config.max_retries
       THEN [pc |-> "sleep", result |-> NoResult, sleep |-> TRUE]
       ELSE [pc |-> "done", result |-> "False", sleep |-> FALSE]

\* (variant: the except clause logs and raises again)
HandlerReraises(a) ==
  [pc |-> "done", result |-> "Exception", sleep |-> FALSE]

\* (variant: the except clause gives the task up at once)
HandlerGivesUp(a) ==
  [pc |-> "done", result |-> "False", sleep |-> FALSE]

\* (variant: the except clause sleeps after the last attempt as well)
HandlerAlwaysSleeps(a) ==
  [pc |-> "sleep", result |-> NoResult, sleep |-> TRUE]

\* lines 90-93 and 95-96: the except clause of attempt a
Handler(a) ==
  IF a < config.max_retries
  THEN [pc |-> "sleep", result |-> NoResult, sleep |-> TRUE]
  ELSE [pc |-> "done", result |-> "False", sleep |-> FALSE]

\* lines 67-88: run attempt a on from destination i, up to the next await
\* (a push_image call or the sleep) or to the return
Continue(t, a, i, s, o) ==
  LET sc == Scan(t, i, s, o)
  IN IF sc.idx <= Len(Dests(t))
     THEN [pc |-> "push", attempt |-> a, idx |-> sc.idx,
           success |-> sc.success, outs |-> sc.outs, result |-> NoResult,
           sleep |-> FALSE, began |-> (i = 1)]
     ELSE LET f == Fold(a, sc.success)
          IN [pc |-> f.pc, attempt |-> a, idx |-> sc.idx,
              success |-> sc.success, outs |-> sc.outs, result |-> f.result,
              sleep |-> f.sleep, began |-> (i = 1)]

\* (variant: the first attempt is made whatever the budget, as with
\* range(1, max(1, max_retries) + 1))
BeginLoopAtLeastOnce(t, a) ==
  IF a <= config.max_retries \/ a = 1
  THEN Continue(t, a, 1, TRUE, <<>>)
  ELSE [pc |-> "done", attempt |-> attempt[t], idx |-> idx[t],
        success |-> success[t], outs |-> outs[t], result |-> "False",
        sleep |-> FALSE, began |-> FALSE]

\* line 62: the for statement takes the value a of range(1, max_retries + 1)
\* or, when the range is exhausted, falls through to lines 95-96
BeginLoop(t, a) ==
  IF a <= config.max_retries
  THEN Continue(t, a, 1, TRUE, <<>>)
  ELSE [pc |-> "done", attempt |-> attempt[t], idx |-> idx[t],
        success |-> success[t], outs |-> outs[t], result |-> "False",
        sleep |-> FALSE, began |-> FALSE]

\* (variant: the permit is given back when the coroutine returns, not when
\* an exception leaves the block)
__aexit__on_return(rec, s) ==
  IF rec.pc = "done" /\ rec.result # "Exception" THEN release(s) ELSE s

\* (variant: the gate is around one attempt only - the permit is given
\* back before the retry sleep as well)
__aexit__before_sleep(rec, s) ==
  IF rec.pc \in {"done", "sleep"} THEN release(s) ELSE s

\* line 61, the end of `async with self.semaphore`: the permit is released
\* when the coroutine returns and when an exception leaves the block
__aexit__(rec, s) == IF rec.pc = "done" THEN release(s) ELSE s

\* The coroutine t has run up to rec; s is the semaphore it leaves behind
\* before `async with` is left.
Commit(t, rec, s, ent) ==
  LET s2 == __aexit__(rec, s)
  IN /\ pc' = [u \in Tasks |-> IF u = t THEN rec.pc
                               ELSE IF u \in s2.woken THEN "granted"
                               ELSE pc[u]]
     /\ sem_value' = s2.value
     /\ sem_waiters' = s2.waiters
     /\ attempt' = [attempt EXCEPT ![t] = rec.attempt]
     /\ idx' = [idx EXCEPT ![t] = rec.idx]
     /\ success' = [success EXCEPT ![t] = rec.success]
     /\ outs' = [outs EXCEPT ![t] = rec.outs]
     /\ prevTrue' = [prevTrue EXCEPT ![t] =
                       IF rec.began
                       THEN {i \in 1..Len(outs[t]) : outs[t][i] = "true"}
                       ELSE @]
     /\ nattempts' = [nattempts EXCEPT ![t] = IF rec.began THEN @ + 1 ELSE @]
     /\ delays' = [delays EXCEPT ![t] =
                     IF rec.sleep THEN Append(@, config.retry_delay) ELSE @]
     /\ results' = [results EXCEPT ![t] = rec.result]
     /\ entered' = [entered EXCEPT ![t] = @ + ent]
     /\ UNCHANGED <<config, registries, images, main_pc, mirror_result,
                    frontVars, call>>

\* -------------------------------------------------------------- actions
\* gather puts the first step of every coroutine on the ready queue of the
\* event loop, in list order, before it suspends.  Whatever wakes a
\* suspended coroutine (a finished subprocess, a timer, a released permit)
\* is queued behind them, so a coroutine that has suspended goes on only
\* after every coroutine has run its first step.
Started == \A u \in Tasks : pc[u] # "created"

\* t is the coroutine whose first step ran last: the only one that can
\* still be running (a push_image that returns without suspending) while
\* later coroutines have not started
LastStarted(t) == t + 1 \in Tasks /\ pc[t] # "created" /\ pc[t + 1] = "created"

\* First step of coroutine t.  gather schedules the coroutines in list
\* order, so t runs only after the ones before it have run their first step.
\* `async with self.semaphore`: take a permit and go on, or queue up.
Enter(t) ==
  /\ main_pc = "gathering"
  /\ pc[t] = "created"
  /\ \A u \in Tasks : u < t => pc[u] # "created"
  /\ ~locked(Sem)
  /\ Commit(t, BeginLoop(t, 1), [Sem EXCEPT !.value = @ - 1], 1)

Queue(t) ==
  /\ main_pc = "gathering"
  /\ pc[t] = "created"
  /\ \A u \in Tasks : u < t => pc[u] # "created"
  /\ locked(Sem)
  /\ pc' = [pc EXCEPT ![t] = "waiting"]
  /\ sem_waiters' = Append(sem_waiters, t)
  /\ UNCHANGED <<config, registries, images, main_pc, mirror_result,
                 results, sem_value, attempt, idx, success, outs, prevTrue,
                 nattempts, delays, entered, frontVars, call>>

\* Semaphore.acquire after the wait: the waiter leaves the queue, passes a
\* spare permit on, and the coroutine goes into the block
Resume(t) ==
  /\ pc[t] = "granted"
  /\ Started
  /\ LET i == CHOOSE j \in 1..Len(sem_waiters) : sem_waiters[j] = t
         s1 == [Sem EXCEPT
                  !.waiters = SubSeq(@, 1, i - 1) \o SubSeq(@, i + 1, Len(@)),
                  !.woken = @ \ {t}]
         s2 == IF s1.value > 0 THEN _wake_up_next(s1) ELSE s1
     IN Commit(t, BeginLoop(t, 1), s2, 1)

\* line 76: the awaited push_image of destination idx[t] ends with outcome o
PushReturns(t, o) ==
  /\ pc[t] = "push"
  /\ Started \/ LastStarted(t)
  /\ LET a == attempt[t]
         o2 == Append(outs[t], o)
         stay == [attempt |-> a, idx |-> idx[t], success |-> success[t],
                  outs |-> o2, began |-> FALSE]
         rec == CASE o = "true" -> Continue(t, a, idx[t] + 1, success[t], o2)
                  [] o = "false" -> Continue(t, a, idx[t] + 1, FALSE, o2)
                  [] o = "exception" ->
                       stay @@ Handler(a)
                  [] o = "base_exception" ->
                       stay @@ [pc |-> "done", result |-> "Exception",
                                sleep |-> FALSE]
     IN Commit(t, rec, Sem, 0)

\* lines 88 and 93: asyncio.sleep(retry_delay) is over; next iteration
SleepReturns(t) ==
  /\ pc[t] = "sleep"
  /\ Started
  /\ Commit(t, BeginLoop(t, attempt[t] + 1), Sem, 0)

\* (variant: process_images goes on as soon as one coroutine is done, as
\* with asyncio.wait(return_when=FIRST_COMPLETED))
GatherFirstCompleted ==
  /\ main_pc = "gathering"
  /\ \E t \in Coroutines : pc[t] = "done"
  /\ main_pc' = "returned"
  /\ mirror_result' =
       [total_images |-> Len(images),
        successful_images |->
          successful_images([t \in Coroutines |-> results[t]]),
        failed_images |->
          failed_images([t \in Coroutines |-> results[t]])]
  /\ UNCHANGED <<config, registries, images, results, sem_value, sem_waiters,
                 pc, attempt, idx, success, outs, prevTrue, nattempts,
                 delays, entered, frontVars, call>>

\* lines 46-56: gather has every result; count and return the MirrorResult
Gather ==
  /\ main_pc = "gathering"
  /\ \A t \in Coroutines : pc[t] = "done"
  /\ main_pc' = "returned"
  /\ mirror_result' =
       [total_images |-> Len(images),
        successful_images |->
          successful_images([t \in Coroutines |-> results[t]]),
        failed_images |->
          failed_images([t \in Coroutines |-> results[t]])]
  /\ UNCHANGED <<config, registries, images, results, sem_value, sem_waiters,
                 pc, attempt, idx, success, outs, prevTrue, nattempts,
                 delays, entered, frontVars, call>>

Next ==
  \/ ProcessImages
  \/ \E t \in Tasks : Enter(t)
  \/ \E t \in Tasks : Queue(t)
  \/ \E t \in Tasks : Resume(t)
  \/ \E t \in Tasks : \E o \in PushOutcomes : PushReturns(t, o)
  \/ \E t \in Tasks : SleepReturns(t)
  \/ Gather

Spec == Init /\ [][Next]_vars

SpecAdapters == InitAdapters /\ [][Next]_vars

\* a task with three destinations (two of them with an adapter when ECR and
\* GAR are configured, ACR never), alone or in front of a second task,
\* behind a gate of one permit
LongDests ==
  {<<"ECR", "GAR", "ACR">>, <<"ACR", "ECR", "GAR">>, <<"ECR", "ACR", "GAR">>}

LongLists ==
  LET image(d, n) == [destinations |-> d,
                      source |-> "docker.io/library/nginx:latest",
                      line_number |-> n]
  IN {<<image(d, 1)>> : d \in LongDests}
       \cup {<<image(d, 1), image(<<"ECR">>, 2)>> : d \in LongDests}

InitLong == InitWith(AdapterConfigs, LongLists)

SpecLong == InitLong /\ [][Next]_vars

\* two tasks whose destination lists hold the same tags the same number of
\* times, in any two orders
PermutedLists ==
  LET image(d, n) == [destinations |-> d,
                      source |-> "docker.io/library/nginx:latest",
                      line_number |-> n]
      count(d, tag) == Cardinality({j \in 1..Len(d) : d[j] = tag})
  IN {<<image(de[1], 1), image(de[2], 2)>> :
        de \in {x \in DestLists \X DestLists :
                  /\ Len(x[1]) = Len(x[2])
                  /\ \A tag \in ManifestTags :
                       count(x[1], tag) = count(x[2], tag)}}

InitPermuted == InitWith(AdapterConfigs, PermutedLists)

SpecPermuted == InitPermuted /\ [][Next]_vars

\* ----------------------------------------- main, validate_setup and run
\* how an authentication coroutine of authenticate_all ends for gather:
\* with a ValidationResult (each of them catches Exception itself), or with
\* a BaseException that is no Exception
AuthOutcomes == {"success", "failure", "base_exception"}

\* how `crane version` ends in validate_setup: exit status 0, another exit
\* status, no such program, or another OSError when the program is started
CraneOutcomes == {"ok", "nonzero", "FileNotFoundError", "OSError"}

\* what validate_access of an adapter returns
AccessOutcomes == {"success", "failure"}

\* authenticate_all, lines 22-37: one coroutine per configured registry
auth_tasks(cfg) ==
  (IF truthy_list(cfg.ecr_regions) THEN {"ECR"} ELSE {})
    \cup (IF truthy_list(cfg.gcp_regions) THEN {"GAR"} ELSE {})
    \cup (IF truthy_list(cfg.azure_regions) THEN {"ACR"} ELSE {})
    \cup (IF truthy_str(cfg.jfrog_url) THEN {"JFROG"} ELSE {})
    \cup (IF truthy_str(cfg.docr_token) THEN {"DOCR"} ELSE {})

\* authenticate_all, lines 40-52, the coroutines ending as in out
authenticate_all(cfg, out) ==
  LET failures == {k \in auth_tasks(cfg) : out[k] \in {"failure", "exception"}}
  IN IF failures # {}
     THEN [success |-> FALSE, message |-> "Authentication failed"]
     ELSE [success |-> TRUE, message |-> ""]

\* (variant: the loop goes on after a validate_access that failed and
\* returns the first failure at its end)
RECURSIVE validate_registries_all(_, _)
validate_registries_all(i, access) ==
  IF i > Len(valid_targets)
  THEN [success |-> TRUE, message |-> "", checks |-> <<>>]
  ELSE LET name == valid_targets[i]
           r == validate_registries_all(i + 1, access)
       IN IF name \notin registries THEN r
          ELSE IF access[name] = "failure"
               THEN [success |-> FALSE,
                     message |-> name \o " validation failed",
                     checks |-> <<[check |-> name, passed |-> FALSE]>>
                                  \o r.checks]
               ELSE [r EXCEPT !.checks =
                                <<[check |-> name, passed |-> TRUE]>> \o @]

\* validate_setup, lines 79-86: the adapters in the order they were put
\* into the map; the first one whose validate_access fails ends the loop
RECURSIVE validate_registries(_, _)
validate_registries(i, access) ==
  IF i > Len(valid_targets)
  THEN [success |-> TRUE, message |-> "", checks |-> <<>>]
  ELSE LET name == valid_targets[i]
       IN IF name \notin registries
          THEN validate_registries(i + 1, access)
          ELSE IF access[name] = "failure"
               THEN [success |-> FALSE,
                     message |-> name \o " validation failed",
                     checks |-> <<[check |-> name, passed |-> FALSE]>>]
               ELSE [validate_registries(i + 1, access) EXCEPT !.checks =
                       <<[check |-> name, passed |-> TRUE]>> \o @]

\* validate_setup, lines 49-89: the ValidationResult it returns, or the
\* exception that leaves it, the calls of authenticate_all it makes and the
\* checks it runs
validate_setup(crane, out, access) ==
  LET auth_result == authenticate_all(config, out)
      ran(name, ok) == [check |-> name, passed |-> ok]
      returns(ok, msg, calls, cks) ==
        [raised |-> FALSE, success |-> ok, message |-> msg,
         auth_calls |-> calls, checks |-> cks]
  IN IF crane = "OSError"
     THEN [raised |-> TRUE, success |-> FALSE, message |-> "OSError",
           auth_calls |-> <<>>, checks |-> <<ran("crane", FALSE)>>]
     ELSE IF crane = "nonzero"
     THEN returns(FALSE, "crane tool not found", <<>>,
                  <<ran("crane", FALSE)>>)
     ELSE IF crane = "FileNotFoundError"
     THEN returns(FALSE, "crane tool not installed", <<>>,
                  <<ran("crane", FALSE)>>)
     ELSE IF image_list_file = None
     THEN returns(FALSE, "Image list file not found", <<>>,
                  <<ran("crane", TRUE), ran("image_list_file", FALSE)>>)
     ELSE IF ~auth_result.success
     THEN returns(FALSE, auth_result.message, <<FALSE>>,
                  <<ran("crane", TRUE), ran("image_list_file", TRUE),
                    ran("authenticate_all", FALSE)>>)
     ELSE LET acc == validate_registries(1, access)
          IN returns(acc.success, acc.message, <<TRUE>>,
                     <<ran("crane", TRUE), ran("image_list_file", TRUE),
                       ran("authenticate_all", TRUE)>> \o acc.checks)

\* (variant: no return after "Validation passed!", main goes on to run)
after_validate_falls_through(r) ==
  IF ~r.raised /\ r.success THEN "run" ELSE "exited"

\* main, lines 55-60 and 73-78: after validate_setup the process exits
after_validate(r) == "exited"

\* (variant: run ignores the result of authenticate_all)
after_authenticate_ignored(auth_result) == "load"

\* run, lines 96-98: go on only when the authentication succeeded
after_authenticate(auth_result) ==
  IF ~auth_result.success THEN "raise" ELSE "load"

\* (variant: the exit status does not look at failed_images)
exit_status_always_zero(result) == 0

\* main, lines 62-68: the exit status after run returned result
exit_status(result) == IF result.failed_images > 0 THEN 1 ELSE 0

\* main, lines 41-54: build the configuration and the ContainerMirror and
\* pick the mode
Main ==
  /\ run_pc = "main"
  /\ run_pc' = IF validate_only THEN "validate_setup" ELSE "run"
  /\ UNCHANGED <<config, registries, images, main_pc, mirror_result, results,
                 sem_value, sem_waiters, pc, attempt, idx, success, outs,
                 prevTrue, nattempts, delays, entered, validate_only,
                 image_list_file, warnings, auth_calls, error, exit_code,
                 checks, call>>

\* main, lines 55-60 (and 73-78 when validate_setup raises): the whole of
\* validate_setup, then the exit
Validate ==
  /\ run_pc = "validate_setup"
  /\ \E crane \in CraneOutcomes :
       \E out \in [auth_tasks(config) -> AuthOutcomes] :
         \E access \in [registries -> AccessOutcomes] :
           LET r == validate_setup(crane, out, access)
           IN /\ run_pc' = after_validate(r)
              /\ auth_calls' = auth_calls \o r.auth_calls
              /\ error' = r.message
              /\ exit_code' = IF ~r.raised /\ r.success THEN 0 ELSE 1
              /\ checks' = checks \o r.checks
  /\ UNCHANGED <<config, registries, images, main_pc, mirror_result, results,
                 sem_value, sem_waiters, pc, attempt, idx, success, outs,
                 prevTrue, nattempts, delays, entered, validate_only,
                 image_list_file, warnings, call>>

\* run, lines 93-98 (and main, lines 73-78, when run raises): the whole of
\* authenticate_all and the test of its result
RunAuthenticate ==
  /\ run_pc = "run"
  /\ \E out \in [auth_tasks(config) -> AuthOutcomes] :
       LET auth_result == authenticate_all(config, out)
       IN /\ auth_calls' = Append(auth_calls, auth_result.success)
          /\ IF after_authenticate(auth_result) = "raise"
             THEN /\ run_pc' = "exited"
                  /\ error' = "Authentication failed"
                  /\ exit_code' = 1
             ELSE /\ run_pc' = after_authenticate(auth_result)
                  /\ UNCHANGED <<error, exit_code>>
  /\ UNCHANGED <<config, registries, images, main_pc, mirror_result, results,
                 sem_value, sem_waiters, pc, attempt, idx, success, outs,
                 prevTrue, nattempts, delays, entered, validate_only,
                 image_list_file, warnings, checks,
                 call>>

\* run, lines 101-106 (and main, lines 73-78, when open raises): load the
\* image list and call process_images
RunLoad ==
  /\ run_pc = "load"
  /\ IF image_list_file = None
     THEN /\ run_pc' = "exited"
          /\ error' = "FileNotFoundError"
          /\ exit_code' = 1
          /\ UNCHANGED <<images, main_pc, results, pc, attempt, idx, success,
                         outs, prevTrue, nattempts, delays, entered,
                         warnings>>
     ELSE LET loaded == _load_image_list(image_list_file[1])
              tasks == 1..Len(loaded.images)
          IN /\ images' = loaded.images
             /\ warnings' = loaded.warnings
             /\ run_pc' = "process_images"
             /\ main_pc' = "ready"
             /\ results' = [t \in tasks |-> NoResult]
             /\ pc' = [t \in tasks |-> "none"]
             /\ attempt' = [t \in tasks |-> 0]
             /\ idx' = [t \in tasks |-> 0]
             /\ success' = [t \in tasks |-> TRUE]
             /\ outs' = [t \in tasks |-> <<>>]
             /\ prevTrue' = [t \in tasks |-> {}]
             /\ nattempts' = [t \in tasks |-> 0]
             /\ delays' = [t \in tasks |-> <<>>]
             /\ entered' = [t \in tasks |-> 0]
             /\ UNCHANGED <<error, exit_code>>
  /\ UNCHANGED <<config, registries, mirror_result, sem_value, sem_waiters,
                 validate_only, image_list_file, auth_calls, checks,
                 call>>

\* run, lines 108-121, and main, lines 62-68: process_images has returned;
\* log the summary and exit
MainExit ==
  /\ run_pc = "process_images"
  /\ main_pc = "returned"
  /\ run_pc' = "exited"
  /\ exit_code' = exit_status(mirror_result)
  /\ UNCHANGED <<config, registries, images, main_pc, mirror_result, results,
                 sem_value, sem_waiters, pc, attempt, idx, success, outs,
                 prevTrue, nattempts, delays, entered, validate_only,
                 image_list_file, warnings, auth_calls, error, checks,
                 call>>

\* exit status of main after a KeyboardInterrupt
InterruptStatus == 130

\* the coroutine t is cancelled: a push_image call it is waiting for gets
\* the CancelledError thrown in and is abandoned with its command
cancelled_outs(t) ==
  IF pc[t] = "push" THEN Append(outs[t], "cancelled") ELSE outs[t]

\* main, lines 62 and 70-72: SIGINT while asyncio.run is at work.  The main
\* task is cancelled, gather cancels every coroutine that is not done (a
\* CancelledError is thrown in at the await each is suspended at, and no
\* except clause of the program catches it), every `async with` gives its
\* permit back, no MirrorResult is built, and main exits on the
\* KeyboardInterrupt.
Interrupt ==
  /\ run_pc # "exited"
  /\ run_pc' = "exited"
  /\ exit_code' = InterruptStatus
  /\ error' = "KeyboardInterrupt"
  /\ main_pc' = IF main_pc \in {"ready", "gathering"} THEN "cancelled"
                ELSE main_pc
  /\ pc' = [t \in Tasks |-> IF pc[t] \in {"done", "none"} THEN pc[t]
                            ELSE "cancelled"]
  /\ results' = [t \in Tasks |-> IF pc[t] \in {"done", "none"} THEN results[t]
                                 ELSE "Cancelled"]
  /\ outs' = [t \in Tasks |-> cancelled_outs(t)]
  /\ sem_value' = SemaphoreInit(config)
  /\ sem_waiters' = <<>>
  /\ UNCHANGED <<config, registries, images, mirror_result, attempt, idx,
                 success, prevTrue, nattempts, delays, entered, validate_only,
                 image_list_file, warnings, auth_calls, checks,
                 call>>

\* the lines and the manifests of the runs of the whole program
MainLines ==
  {<<"#", " ", "ECR", " ", "docker.io/library/nginx:latest">>,
   <<"ECR">>,
   <<"ECR", " ", "docker.io/library/nginx:latest">>,
   <<" ", "GAR", ",", "ECR", "\t", "docker.io/library/redis:6", " ">>,
   <<"INVALID", " ", "docker.io/nginx:latest">>,
   <<"ECR", ",", "INVALID", " ", "docker.io/nginx:latest">>}

MainManifests == SeqsUpTo(MainLines, MaxMainLines)

\* the configurations of the runs of the whole program
MainConfigs ==
  [max_parallel_jobs : {1},
   max_retries : {1, 2},
   retry_delay : {DefaultRetryDelay},
   ecr_regions : {None, Regions},
   gcp_regions : {None, Regions},
   azure_regions : {None},
   jfrog_url : {None},
   docr_token : {None}]

\* the process at the first line of main
InitMainWith(cfgs, files) ==
  /\ config \in cfgs
  /\ registries = _initialize_registries(config)
  /\ validate_only \in BOOLEAN
  /\ image_list_file \in files
  /\ images = <<>>
  /\ main_pc = "idle"
  /\ mirror_result = NoMirrorResult
  /\ results = <<>>
  /\ sem_value = SemaphoreInit(config)
  /\ sem_waiters = <<>>
  /\ pc = <<>>
  /\ attempt = <<>>
  /\ idx = <<>>
  /\ success = <<>>
  /\ outs = <<>>
  /\ prevTrue = <<>>
  /\ nattempts = <<>>
  /\ delays = <<>>
  /\ entered = <<>>
  /\ run_pc = "main"
  /\ warnings = <<>>
  /\ auth_calls = <<>>
  /\ error = ""
  /\ exit_code = NotExited
  /\ checks = <<>>
  /\ call = NoCall

InitMain ==
  InitMainWith(MainConfigs, {None} \cup {Some(m) : m \in MainManifests})

\* Config with every combination of the fields that select the adapters:
\* None, empty, or a value (ConfigManager gives None or a value for the
\* regions, and whatever the environment holds for JFROG_URL and
\* DOCR_TOKEN; the tests build Config by hand)
RegistryConfigs ==
  [max_parallel_jobs : {1},
   max_retries : {2},
   retry_delay : {DefaultRetryDelay},
   ecr_regions : {None, Some(<<>>), Regions},
   gcp_regions : {None, Some(<<>>), Regions},
   azure_regions : {None, Some(<<>>), Regions},
   jfrog_url : {None, Some(""), Url},
   docr_token : {None, Some(""), Token}]

\* the image list of these runs: one ECR and one GAR image
RegistryManifest ==
  << <<"ECR", " ", "docker.io/library/nginx:latest">>,
     <<"GAR", " ", "docker.io/library/redis:6">> >>

InitRegistries == InitMainWith(RegistryConfigs, {Some(RegistryManifest)})

NextMain ==
  \/ Main
  \/ Validate
  \/ RunAuthenticate
  \/ RunLoad
  \/ MainExit
  \/ Next

SpecMain == InitMain /\ [][NextMain]_vars

SpecRegistries == InitRegistries /\ [][NextMain]_vars

\* the program with a SIGINT that can arrive at any moment before it exits
NextInterrupt ==
  \/ Interrupt
  \/ NextMain

SpecInterrupt == InitMain /\ [][NextInterrupt]_vars

\* ---------------------------------------------------- _load_image_list
\* run at line 101, in front of image list files of up to MaxLines lines
ParserConfigs ==
  {cfg \in MainConfigs :
     cfg.max_retries = 1 /\ cfg.ecr_regions # None /\ cfg.gcp_regions = None}

InitParser ==
  /\ config \in ParserConfigs
  /\ registries = _initialize_registries(config)
  /\ validate_only = FALSE
  /\ image_list_file \in
       {None} \cup {Some(m) : m \in SeqsUpTo(ManifestLines, MaxLines)}
  /\ images = <<>>
  /\ main_pc = "idle"
  /\ mirror_result = NoMirrorResult
  /\ results = <<>>
  /\ sem_value = SemaphoreInit(config)
  /\ sem_waiters = <<>>
  /\ pc = <<>>
  /\ attempt = <<>>
  /\ idx = <<>>
  /\ success = <<>>
  /\ outs = <<>>
  /\ prevTrue = <<>>
  /\ nattempts = <<>>
  /\ delays = <<>>
  /\ entered = <<>>
  /\ run_pc = "load"
  /\ warnings = <<>>
  /\ auth_calls = <<TRUE>>
  /\ error = ""
  /\ exit_code = NotExited
  /\ checks = <<>>
  /\ call = NoCall

NextParser == RunLoad

SpecParser == InitParser /\ [][NextParser]_vars

\* --------------------------------------- push_image of a registry adapter
\* everything but the push_image call
pipelineVars == <<config, registries, images, main_pc, mirror_result,
                  results, sem_value, sem_waiters, pc, attempt, idx, success,
                  outs, prevTrue, nattempts, delays, entered, frontVars>>

\* the region the loop of push_image is at
region_of(c, cfg) == regions_of(c.kind, cfg)[c.region]

\* push_image is called: _parse_image, the counters, and the first region
\* of the list (each call of a task's attempts has the same source)
PushImage ==
  /\ call.kind # ""
  /\ call.pc = "idle" \/ (call.pc = "returned" /\ call.run < MaxRuns)
  /\ LET parsed == _parse_image(call.source)
         c == [call EXCEPT !.run = @ + 1,
                           !.repo = parsed.repo,
                           !.tag = parsed.tag,
                           !.region = 0,
                           !.success_count = 0,
                           !.total_regions = Len(regions_of(call.kind, config)),
                           !.account_id = "",
                           !.result = "none",
                           !.copies = <<>>,
                           !.before = call.copies,
                           !.steps = <<>>]
     IN call' = IF call.kind = "JFROG" THEN [c EXCEPT !.pc = "copy"]
                ELSE next_region(c, config)
  /\ UNCHANGED pipelineVars

\* _run_command / _run_crane_command: the command of the step c is at
\* has been run and has given ok (history: the commands of the region the
\* loop is at or has just left, begun anew with the region's first command)
ran(c, ok) ==
  [c EXCEPT !.steps =
     Append(IF c.pc = first_step(c.kind) THEN <<>> ELSE @,
            [region |-> c.region, step |-> c.pc, ok |-> ok])]

\* ECRRegistry.push_image, lines 18-25: `aws sts get-caller-identity` is
\* over; without an account the region is given up
Identity(ok, stdout) ==
  /\ call.pc = "identity"
  /\ call' = IF ok THEN [ran(call, ok) EXCEPT !.account_id = stdout,
                                              !.pc = "describe"]
             ELSE next_region(ran(call, ok), config)
  /\ UNCHANGED pipelineVars

\* the command that looks for the repository (the registry, for ACR) is over
Describe(ok) ==
  /\ call.pc = "describe"
  /\ call' = [ran(call, ok) EXCEPT
               !.pc = IF ok THEN after_provisioning(call.kind) ELSE "create"]
  /\ UNCHANGED pipelineVars

\* (variant: a repository that cannot be created ends the loop: break)
CreateBreaks(ok) ==
  /\ call.pc = "create"
  /\ call' = IF ok THEN [ran(call, ok) EXCEPT
                          !.pc = after_provisioning(call.kind)]
             ELSE [ran(call, ok) EXCEPT !.pc = "returned", !.result = "false"]
  /\ UNCHANGED pipelineVars

\* the command that creates it is over; without it the region is given up
Create(ok) ==
  /\ call.pc = "create"
  /\ call' = IF ok THEN [ran(call, ok) EXCEPT
                          !.pc = after_provisioning(call.kind)]
             ELSE next_region(ran(call, ok), config)
  /\ UNCHANGED pipelineVars

\* ACRRegistry.push_image, lines 46-53: `az acr login` is over
Login(ok) ==
  /\ call.pc = "login"
  /\ call' = IF ok THEN [ran(call, ok) EXCEPT !.pc = "copy"]
             ELSE next_region(ran(call, ok), config)
  /\ UNCHANGED pipelineVars

\* `crane copy source target` is over: the region counts when it succeeded
Copy(ok) ==
  /\ call.pc = "copy"
  /\ LET region == IF call.kind = "JFROG" THEN ""
                   ELSE region_of(call, config)
         target == target_of(call.kind, config, region, call.account_id,
                             call.repo, call.tag)
         c == [ran(call, ok) EXCEPT
                 !.copies = Append(@, [region |-> call.region,
                                       target |-> target, ok |-> ok]),
                 !.success_count = IF ok THEN @ + 1 ELSE @]
     IN call' = IF call.kind = "JFROG"
                THEN [c EXCEPT !.pc = "returned",
                               !.result = IF ok THEN "true" ELSE "false"]
                ELSE next_region(c, config)
  /\ UNCHANGED pipelineVars

\* what `aws sts get-caller-identity` prints: the account of the
\* credentials the environment holds at that moment
AccountIds == {"111111111111", "222222222222"}

\* region names and the lists of them a configuration can hold
\* (_parse_regions keeps the entries as they are listed)
RegionNames == {"us-east-1", "eu-west-1"}
RegionLists == {r \in SeqsUpTo(RegionNames, MaxRegions) : Len(r) >= 1}

\* Config of an adapter that is built by hand, as the tests do, with the
\* fields the push_image methods read: either AZURE_ACR_NAME and
\* DOCR_REGIONS are both given, or neither is
PushConfigs ==
  {[max_parallel_jobs |-> 1,
    max_retries |-> MaxRuns,
    retry_delay |-> DefaultRetryDelay,
    ecr_regions |-> Some(r),
    gcp_regions |-> Some(r),
    azure_regions |-> Some(r),
    jfrog_url |-> Url,
    docr_token |-> Token,
    aws_account_id |-> Some("111111111111"),
    gcp_project_id |-> Some("mirror-project"),
    azure_acr_name |-> IF named THEN Some("mirroracr") ELSE None,
    azure_acr_name_prefix |-> None,
    jfrog_repository |-> None,
    docr_regions |-> IF named THEN Some(r) ELSE None,
    docr_registry_name |-> Some("mirror")] :
     r \in RegionLists, named \in BOOLEAN}

\* the sources of these calls
PushSources ==
  {<<"docker.io", "/", "library", "/", "nginx", ":", "1.25">>,
   <<"nginx">>}

\* an adapter of the registries map and a source, before push_image is
\* called
InitCall(cfgs, sources) ==
  /\ config \in cfgs
  /\ registries = _initialize_registries(config)
  /\ validate_only = FALSE
  /\ image_list_file = None
  /\ images = <<>>
  /\ main_pc = "idle"
  /\ mirror_result = NoMirrorResult
  /\ results = <<>>
  /\ sem_value = SemaphoreInit(config)
  /\ sem_waiters = <<>>
  /\ pc = <<>>
  /\ attempt = <<>>
  /\ idx = <<>>
  /\ success = <<>>
  /\ outs = <<>>
  /\ prevTrue = <<>>
  /\ nattempts = <<>>
  /\ delays = <<>>
  /\ entered = <<>>
  /\ run_pc = "main"
  /\ warnings = <<>>
  /\ auth_calls = <<>>
  /\ error = ""
  /\ exit_code = NotExited
  /\ checks = <<>>
  /\ \E kind \in registries : \E source \in sources :
       call = [NoCall EXCEPT !.kind = kind, !.source = source]

InitPush == InitCall(PushConfigs, PushSources)

NextPush ==
  \/ PushImage
  \/ \E ok \in BOOLEAN : \E stdout \in AccountIds : Identity(ok, stdout)
  \/ \E ok \in BOOLEAN : Describe(ok)
  \/ \E ok \in BOOLEAN : Create(ok)
  \/ \E ok \in BOOLEAN : Login(ok)
  \/ \E ok \in BOOLEAN : Copy(ok)

SpecPush == InitPush /\ [][NextPush]_vars

\* ------------------------------------------------------------ _parse_image
\* every source of up to MaxSourceLen atoms, handed to the push_image of
\* the one adapter of a configuration with JFROG_URL alone
AllSources == {s \in SeqsUpTo(SourceAtoms, MaxSourceLen) : Len(s) >= 1}

JfrogConfigs ==
  {[cfg EXCEPT !.ecr_regions = None, !.gcp_regions = None,
               !.azure_regions = None, !.docr_token = None] :
     cfg \in {c \in PushConfigs : c.azure_acr_name = None}}

InitParseImage == InitCall(JfrogConfigs, AllSources)

NextParseImage ==
  \/ PushImage
  \/ \E ok \in BOOLEAN : Copy(ok)

SpecParseImage == InitParseImage /\ [][NextParseImage]_vars

\* every step of coroutine t
TaskStep(t) ==
  /\ t \in Tasks
  /\ \/ Enter(t)
     \/ Queue(t)
     \/ Resume(t)
     \/ \E o \in PushOutcomes : PushReturns(t, o)
     \/ SleepReturns(t)

\* The event loop runs every callback that is ready, so no coroutine that
\* can take a step is left out for ever; a push_image call and a sleep that
\* are awaited come back (in some way).  (process_images moves main_pc
\* with each of its steps; a coroutine that fails an attempt without a push
\* goes from one sleep to the next, so its steps are told by the attempts
\* it counts, not by its pc alone.)
Fairness ==
  /\ WF_main_pc(ProcessImages)
  /\ WF_main_pc(Gather)
  /\ \A t \in 1..MaxTasks : WF_vars(TaskStep(t))

SpecFair == Init /\ [][Next]_vars /\ Fairness

\* the pipeline under fair scheduling for image lists of at most two tasks,
\* with every bounded gate width and retry budget
InitTermination == InitWith(Configs, {im \in ImageLists : Len(im) <= 2})

SpecTermination == InitTermination /\ [][Next]_vars /\ Fairness

\* ================================================================ claims
\* the coroutine t is inside `async with self.semaphore`
InGate(t) == pc[t] \in {"push", "sleep"}

\* the latest attempt of t has run to its end (success, failure or raise)
AttemptEnded(t) == pc[t] \in {"sleep", "done"} /\ nattempts[t] >= 1

\* t returned True
ReturnedTrue(t) == pc[t] = "done" /\ results[t] = "True"

\* t returned False
ReturnedFalse(t) == pc[t] = "done" /\ results[t] = "False"

\* what the latest attempt of t did, destination by destination: every
\* entry of the task is a key of the registries map and its push returned
\* True
AttemptOK(t) ==
  /\ Len(outs[t]) = Len(Dests(t))
  /\ \A i \in 1..Len(Dests(t)) :
       Dests(t)[i] \in registries /\ outs[t][i] = "true"

\* the outcome recorded last in the latest attempt of t
LastOut(t) == IF outs[t] = <<>> THEN "none" ELSE outs[t][Len(outs[t])]

\* C1 - Concurrency bound: in every reachable state at most
\* max_parallel_jobs coroutines are between acquiring and releasing the
\* semaphore.
C1_ConcurrencyBound ==
  Cardinality({t \in Tasks : InGate(t)}) <= config.max_parallel_jobs

\* more tasks than permits, every permit in use, a task kept waiting
C1_Witness ==
  /\ config.max_parallel_jobs = 2
  /\ Len(images) > config.max_parallel_jobs
  /\ Cardinality({t \in Tasks : InGate(t)}) = 2
  /\ \E t \in Tasks : pc[t] = "waiting"

\* C2 - Retry bound: a task never begins more than max_retries attempts; a
\* task that goes on to another attempt, or returns False, has failed the
\* attempt before, and it returns False only after exactly max_retries
\* attempts (max_retries being a number of attempts, >= 0); a task returns
\* True at the end of its first successful attempt k <= max_retries, having
\* made exactly k attempts; once a task has resolved, no attempt and no push
\* is made for it any more.
C2_RetryBound ==
  /\ [](\A t \in Tasks :
         /\ nattempts[t] >= 0
         /\ nattempts[t] >= 1 => nattempts[t] <= config.max_retries
         /\ nattempts[t] = attempt[t]
         /\ pc[t] \in {"push", "sleep"} =>
              nattempts[t] >= 1 /\ (pc[t] = "sleep" => ~AttemptOK(t))
         /\ ReturnedFalse(t) /\ config.max_retries >= 0 =>
              /\ nattempts[t] = config.max_retries
              /\ nattempts[t] >= 1 => ~AttemptOK(t)
         /\ ReturnedTrue(t) =>
              nattempts[t] \in 1..config.max_retries /\ AttemptOK(t))
  /\ [][\A t \in Tasks :
         pc[t] = "done" =>
           /\ pc'[t] = "done"
           /\ nattempts'[t] = nattempts[t]
           /\ outs'[t] = outs[t]
           /\ results'[t] = results[t]]_vars

\* one task failed all of max_retries = 2 attempts, another succeeded at
\* its second, a third at its first
C2_Witness ==
  /\ config.max_retries = 2
  /\ \E t, u, v \in Tasks :
       /\ ReturnedFalse(t) /\ nattempts[t] = 2
       /\ ReturnedTrue(u) /\ nattempts[u] = 2
       /\ ReturnedTrue(v) /\ nattempts[v] = 1

\* C3 - AND-fold: an attempt that has ended is a success (the task returns
\* True) exactly when every destination of the task is a key of registries
\* and its push in that attempt returned True; during an attempt the flag
\* `success` is the same conjunction over the destinations handled so far.
C3_AndFold ==
  \A t \in Tasks :
    /\ AttemptEnded(t) => (ReturnedTrue(t) <=> AttemptOK(t))
    /\ ReturnedTrue(t) => AttemptEnded(t)
    /\ pc[t] = "push" =>
         (success[t] <=> \A i \in 1..Len(outs[t]) :
                           Dests(t)[i] \in registries /\ outs[t][i] = "true")

\* a failed attempt whose first push returned True and whose second
\* returned False, next to a task that succeeded
C3_Witness ==
  /\ \E t \in Tasks :
       AttemptEnded(t) /\ ~ReturnedTrue(t) /\ outs[t] = <<"true", "false">>
  /\ \E t \in Tasks : ReturnedTrue(t)

\* C4 - Aggregate conservation: the MirrorResult returned by process_images
\* has successful_images + failed_images = total_images.
C4_Conservation ==
  main_pc = "returned" =>
    mirror_result.successful_images + mirror_result.failed_images
      = mirror_result.total_images

\* a result over a task that returned True, one that returned False and one
\* that raised
C4_Witness ==
  /\ main_pc = "returned"
  /\ \E t, u, v \in Tasks :
       /\ results[t] = "True"
       /\ results[u] = "False"
       /\ results[v] = "Exception"

\* C5 - Aggregate counts: when process_images returns, every task of the
\* list has been run to its terminal outcome, total_images is the length of
\* the list, successful_images the number of tasks that returned True and
\* failed_images the number that returned False or raised.
C5_Counts ==
  main_pc = "returned" =>
    /\ \A t \in Tasks : pc[t] = "done" /\ results[t] # NoResult
    /\ mirror_result.total_images = Len(images)
    /\ mirror_result.successful_images
         = Cardinality({t \in Tasks : ReturnedTrue(t)})
    /\ mirror_result.failed_images
         = Cardinality({t \in Tasks :
                         ReturnedFalse(t) \/ results[t] = "Exception"})

\* the first task raised, and the two after it were still run: one
\* returned True
C5_Witness ==
  /\ main_pc = "returned"
  /\ Len(images) = 3
  /\ results[1] = "Exception"
  /\ results[2] = "True"
  /\ mirror_result.failed_images = 2

\* C6 - No error crosses the task boundary: a coroutine whose push calls
\* return or raise an Exception resolves to True or False; after a push
\* that raised an Exception the coroutine is asleep before its next attempt
\* or has returned False.  (Only a BaseException that is no Exception leaves
\* the coroutine.)
C6_NoErrorCrosses ==
  \A t \in Tasks :
    /\ results[t] \in {NoResult, "True", "False", "Exception"}
    /\ results[t] = "Exception" => LastOut(t) = "base_exception"
    /\ pc[t] = "done" /\ LastOut(t) # "base_exception" =>
         results[t] \in {"True", "False"}
    /\ LastOut(t) = "exception" =>
         /\ pc[t] \in {"sleep", "done"}
         /\ pc[t] = "done" => results[t] = "False"

\* a task whose last attempt ended in a raised Exception has returned False
C6_Witness ==
  \E t \in Tasks :
    /\ pc[t] = "done"
    /\ LastOut(t) = "exception"
    /\ outs[t] = <<"true", "exception">>
    /\ results[t] = "False"

\* the retry accounting after a failed attempt of t: the attempt is counted
\* once; when an attempt remains the coroutine sleeps retry_delay, once; when
\* none remains it has returned False without a further sleep
FailureAccounting(t) ==
  /\ nattempts[t] = attempt[t]
  /\ nattempts[t] <= config.max_retries
  /\ nattempts[t] < config.max_retries =>
       /\ pc[t] = "sleep"
       /\ Len(delays[t]) = nattempts[t]
       /\ delays[t][Len(delays[t])] = config.retry_delay
  /\ nattempts[t] = config.max_retries =>
       /\ ReturnedFalse(t)
       /\ Len(delays[t]) = nattempts[t] - 1

\* C7 - A raised error is a failed attempt for retry purposes: after an
\* attempt that ended in a raised Exception the retry accounting is the one
\* that follows an attempt that returned a failure, and the sleep is
\* followed by the next attempt.
C7_RaiseIsFailedAttempt ==
  /\ [](\A t \in Tasks :
         /\ LastOut(t) = "exception" => FailureAccounting(t)
         /\ AttemptEnded(t) /\ ~AttemptOK(t)
              /\ LastOut(t) \notin {"exception", "base_exception"}
              => FailureAccounting(t))
  /\ [][\A t \in Tasks :
         pc[t] = "sleep" /\ pc'[t] # "sleep" =>
           /\ nattempts'[t] = nattempts[t] + 1
           /\ attempt'[t] = attempt[t] + 1]_vars

\* one task asleep after an attempt that raised, another that returned
\* False after its second attempt raised
C7_Witness ==
  /\ config.max_retries = 2
  /\ \E t, u \in Tasks :
       /\ pc[t] = "sleep" /\ LastOut(t) = "exception"
       /\ ReturnedFalse(u) /\ LastOut(u) = "exception" /\ nattempts[u] = 2

\* C8 - Retry delay: every sleep is a sleep of retry_delay; a coroutine in
\* its a-th attempt has slept a - 1 times, one asleep after its a-th attempt
\* (a < max_retries) a times, and one that resolved after a >= 1 attempts
\* a - 1 times: no sleep follows a successful attempt or the last attempt.
C8_RetryDelay ==
  \A t \in Tasks :
    /\ \A i \in 1..Len(delays[t]) : delays[t][i] = config.retry_delay
    /\ nattempts[t] = 0 => delays[t] = <<>>
    /\ pc[t] = "push" => Len(delays[t]) = nattempts[t] - 1
    /\ pc[t] = "sleep" =>
         Len(delays[t]) = nattempts[t] /\ nattempts[t] < config.max_retries
    /\ pc[t] = "done" /\ nattempts[t] >= 1 =>
         Len(delays[t]) = nattempts[t] - 1

\* a task that failed and then succeeded (2 attempts, 1 delay) and one that
\* failed both attempts (1 delay, none after the last)
C8_Witness ==
  /\ config.max_retries = 2
  /\ \E t, u \in Tasks :
       /\ ReturnedTrue(t) /\ nattempts[t] = 2
       /\ delays[t] = <<config.retry_delay>>
       /\ ReturnedFalse(u) /\ nattempts[u] = 2
       /\ delays[u] = <<config.retry_delay>>

\* destinations of t that have an adapter
Configured(t) == {i \in 1..Len(Dests(t)) : Dests(t)[i] \in registries}

\* push_image was invoked for destination i of t in its latest attempt
Pushed(t, i) ==
  \/ i <= Len(outs[t]) /\ outs[t][i] \in PushOutcomes
  \/ pc[t] = "push" /\ idx[t] = i

\* C9 as stated - every attempt after a failed one invokes push_image on
\* every configured destination of the task (on the adapter of every
\* configured tag the task names).
C9_AsStated ==
  \A t \in Tasks :
    nattempts[t] >= 2 /\ AttemptEnded(t) =>
      \A tag \in registries \cap Range(Dests(t)) :
        \E i \in Configured(t) : Dests(t)[i] = tag /\ Pushed(t, i)

\* C9 - Whole-unit retry without memoization (amended): an attempt after a
\* failed one starts again at the first destination and invokes push_image
\* on the configured destinations in order, those whose push returned True
\* before included, skipping none; it reaches every configured destination
\* unless a push of that attempt raises, which ends the attempt there.
C9_WholeUnitRetry ==
  \A t \in Tasks :
    nattempts[t] >= 2 =>
      /\ Len(outs[t]) <= Len(Dests(t))
      /\ \A i \in 1..Len(outs[t]) :
           /\ i \in Configured(t) => outs[t][i] \in PushOutcomes
           /\ i \notin Configured(t) => outs[t][i] = "unknown"
           /\ outs[t][i] \in {"exception", "base_exception"} =>
                i = Len(outs[t])
      /\ pc[t] = "push" =>
           Len(outs[t]) = idx[t] - 1 /\ idx[t] \in Configured(t)
      /\ AttemptEnded(t) =>
           \/ \A i \in Configured(t) : Pushed(t, i)
           \/ LastOut(t) \in {"exception", "base_exception"}

\* the second attempt pushed both destinations again, the first of which
\* had returned True in the failed first attempt
C9_Witness ==
  \E t \in Tasks :
    /\ nattempts[t] = 2
    /\ AttemptEnded(t)
    /\ Dests(t) = <<"ECR", "GAR">>
    /\ Configured(t) = {1, 2}
    /\ prevTrue[t] = {1}
    /\ Pushed(t, 1) /\ Pushed(t, 2)

\* C10 - Each task is run exactly once: no coroutine gets into the gated
\* region twice, one that has not got in has no result, and when
\* process_images returns every task of the list has been in the gated
\* region exactly once and has exactly one terminal outcome.
C10_ExactlyOnce ==
  /\ DOMAIN results = 1..Len(images)
  /\ \A t \in Tasks :
       /\ entered[t] \in {0, 1}
       /\ InGate(t) \/ pc[t] = "done" => entered[t] = 1
       /\ entered[t] = 0 => results[t] = NoResult
       /\ main_pc = "returned" =>
            entered[t] = 1 /\ results[t] \in {"True", "False", "Exception"}

\* three tasks went through a gate of one permit and process_images returned
C10_Witness ==
  /\ main_pc = "returned"
  /\ Len(images) = 3
  /\ config.max_parallel_jobs = 1
  /\ \A t \in Tasks : entered[t] = 1

\* C11 - No starvation: under fair scheduling and push calls that always
\* return, every task for which process_images created a coroutine
\* eventually gets into `async with self.semaphore`, whatever the
\* configured max_parallel_jobs and the number of tasks.
C11_NoStarvation ==
  \A t \in 1..MaxTasks :
    (t \in Tasks /\ pc[t] = "created") ~> (t \in Tasks /\ entered[t] >= 1)

\* the coroutine t holds a permit of the semaphore: it is inside
\* `async with`, or a release has handed it the permit and it is about to
\* resume
HoldsPermit(t) == InGate(t) \/ pc[t] = "granted"

\* the coroutine t has acquired the semaphore at some time
Admitted(t) == entered[t] >= 1 \/ pc[t] = "granted"

\* C12 as stated - with more tasks than permits, from the moment
\* max_parallel_jobs tasks have been admitted and as long as at least that
\* many tasks are unfinished, exactly max_parallel_jobs tasks are inside the
\* gated region (a task that has been handed the permit counted as inside;
\* read for a positive retry budget, so that every task makes an attempt).
C12_AsStated ==
  LET N == config.max_parallel_jobs
  IN main_pc = "gathering" /\ N < Len(images) /\ config.max_retries >= 1
       /\ Cardinality({t \in Tasks : Admitted(t)}) >= N
       /\ Cardinality({t \in Tasks : pc[t] # "done"}) >= N
     => Cardinality({t \in Tasks : HoldsPermit(t)}) = N

\* C12 - Gate saturation (amended): with more tasks than permits, at every
\* instant at which a task waits at the gate, and at every instant from the
\* moment every coroutine has run its first step (has been admitted or has
\* queued up) as long as at least max_parallel_jobs tasks are unfinished,
\* exactly max_parallel_jobs tasks hold a permit (inside the gated region,
\* or handed the permit and about to resume).
C12_Saturation ==
  LET N == config.max_parallel_jobs
      holders == Cardinality({t \in Tasks : HoldsPermit(t)})
  IN main_pc = "gathering" /\ N < Len(images) =>
       /\ (\E t \in Tasks : pc[t] = "waiting") => holders = N
       /\ Started /\ Cardinality({t \in Tasks : pc[t] # "done"}) >= N =>
            holders = N

\* three tasks and two permits: the first task is finished and its permit
\* has gone to the third, which has not resumed yet
C12_Witness ==
  /\ config.max_parallel_jobs = 2
  /\ Len(images) = 3
  /\ main_pc = "gathering"
  /\ pc[1] = "done"
  /\ pc[2] = "push"
  /\ pc[3] = "granted"

\* C13 - Authentication precedes and gates the pipeline: run invokes
\* authenticate_all once, and it has done so, with success, before the image
\* list is loaded and before process_images gets a task; when the
\* authentication fails, run raises "Authentication failed" (main exits on
\* it), nothing is loaded and no task is created, admitted or pushed.
C13_AuthenticationFirst ==
  ~validate_only =>
    /\ Len(auth_calls) <= 1
    /\ run_pc \in {"main", "run"} => auth_calls = <<>>
    /\ run_pc \in {"load", "process_images", "exited"} => Len(auth_calls) = 1
    /\ run_pc \in {"load", "process_images"} \/ main_pc # "idle"
         \/ images # <<>> \/ warnings # <<>>
         => auth_calls = <<TRUE>>
    /\ auth_calls = <<FALSE>> =>
         /\ run_pc = "exited"
         /\ error = "Authentication failed"
         /\ main_pc = "idle"
         /\ images = <<>> /\ warnings = <<>>
         /\ Tasks = {} /\ pc = <<>> /\ entered = <<>> /\ outs = <<>>

\* the authentication failed in a run over a manifest with a line that
\* would have been accepted
C13_Witness ==
  /\ ~validate_only
  /\ auth_calls = <<FALSE>>
  /\ run_pc = "exited"
  /\ image_list_file =
       Some(<< <<"ECR", " ", "docker.io/library/nginx:latest">> >>)
  /\ "ECR" \in registries

\* ------------------------------------------------ the image list, as read
\* _load_image_list has returned
Loaded == run_pc = "process_images" /\ image_list_file # None

\* the lines of the file
Lines == image_list_file[1]

\* line n, trimmed, is empty or starts with '#' or '--'
SkippedLine(n) ==
  LET l == strip(Lines[n])
  IN l = <<>> \/ (l[1] = "#") \/ (Len(l) >= 2 /\ l[1] = "-" /\ l[2] = "-")

\* the whitespace-separated tokens of line n
Tokens(n) == split(Lines[n], <<>>)

\* the comma-separated segments of token 0 of line n
Segments(n) ==
  LET segs == split_on(Tokens(n)[1], ",", <<>>)
  IN [i \in 1..Len(segs) |-> Join(segs[i])]

\* line n has two tokens or more and a recognized tag in token 0
WellFormed(n) ==
  /\ Len(Tokens(n)) >= 2
  /\ \E i \in 1..Len(Segments(n)) : Segments(n)[i] \in Range(valid_targets)

\* the tasks and the warnings that came from line n
TasksOf(n) == {t \in Tasks : images[t].line_number = n}
WarningsOf(n) == {i \in 1..Len(warnings) : warnings[i].line = n}

\* line n gave exactly one task: its segments in order and its token 1
OneTask(n) ==
  /\ Cardinality(TasksOf(n)) = 1
  /\ \A t \in TasksOf(n) :
       /\ images[t].destinations = Segments(n)
       /\ images[t].source = Join(Tokens(n)[2])

\* C14 as stated - every line with two tokens or more and a recognized tag
\* in token 0 gives one task (its segments in order, its token 1 as source),
\* and every other line gives no task and a warning.
C14_AsStated ==
  Loaded =>
    \A n \in 1..Len(Lines) :
      IF WellFormed(n)
      THEN OneTask(n)
      ELSE TasksOf(n) = {} /\ WarningsOf(n) # {}

\* C14 - Parser validity (amended): every line that is not skipped (trimmed,
\* it is not empty and does not start with '#' or '--') and has two tokens
\* or more and a recognized tag (exact match) among the comma-separated
\* segments of token 0 gives one task whose destinations are those segments
\* in order and whose source is token 1; every other line that is not
\* skipped gives no task and one warning; a skipped line gives neither.
C14_ParserValidity ==
  Loaded =>
    /\ \A n \in 1..Len(Lines) :
         IF SkippedLine(n)
         THEN TasksOf(n) = {} /\ WarningsOf(n) = {}
         ELSE IF WellFormed(n)
         THEN OneTask(n) /\ WarningsOf(n) = {}
         ELSE TasksOf(n) = {} /\ Cardinality(WarningsOf(n)) = 1
    /\ \A t \in Tasks : images[t].line_number \in 1..Len(Lines)
    /\ \A i \in 1..Len(warnings) : warnings[i].line \in 1..Len(Lines)

\* a comment with a recognized tag, a line with a recognized and an
\* unrecognized tag, and a line in lower case
C14_Witness ==
  /\ Loaded
  /\ Lines = << <<"#", ",", "ECR", " ", "docker.io/library/nginx:latest">>,
                <<"ECR", ",", "INVALID", " ", "docker.io/nginx:latest">>,
                <<"ecr", " ", "docker.io/nginx:latest">> >>
  /\ Len(images) = 1
  /\ Len(warnings) = 1

\* C15 as stated - every task produced by _load_image_list has a non-empty
\* destinations list of known tags only, and a line (not skipped, with two
\* tokens or more) that holds an unknown tag gives no task.
C15_AsStated ==
  Loaded =>
    /\ \A t \in Tasks :
         /\ images[t].destinations # <<>>
         /\ \A i \in 1..Len(images[t].destinations) :
              images[t].destinations[i] \in Range(valid_targets)
    /\ \A n \in 1..Len(Lines) :
         /\ ~SkippedLine(n)
         /\ Len(Tokens(n)) >= 2
         /\ \E i \in 1..Len(Segments(n)) :
              Segments(n)[i] \notin Range(valid_targets)
         => TasksOf(n) = {}

\* C15 - Task destination invariant (amended): every task produced by
\* _load_image_list has a non-empty destinations list with at least one
\* known tag in it; a line none of whose tags is known is rejected as a
\* whole, and a line with a known tag is accepted with all the segments of
\* its token 0, the unknown and the empty ones kept at their place.
C15_DestinationInvariant ==
  Loaded =>
    /\ \A t \in Tasks :
         /\ images[t].destinations # <<>>
         /\ \E i \in 1..Len(images[t].destinations) :
              images[t].destinations[i] \in Range(valid_targets)
         /\ images[t].destinations = Segments(images[t].line_number)
    /\ \A n \in 1..Len(Lines) :
         /\ ~SkippedLine(n)
         /\ Len(Tokens(n)) >= 2
         => (TasksOf(n) = {} <=>
               \A i \in 1..Len(Segments(n)) :
                 Segments(n)[i] \notin Range(valid_targets))

\* tasks that kept an unknown tag and an empty segment beside a known tag,
\* and a line without a known tag that was rejected
C15_Witness ==
  /\ Loaded
  /\ Len(Lines) = 3
  /\ \E t \in Tasks : images[t].destinations = <<"INVALID", "GAR">>
  /\ \E t \in Tasks : images[t].destinations = <<"GAR", "">>
  /\ \E n \in 1..Len(Lines) :
       Tokens(n) = << <<"INVALID">>, <<"docker.io/nginx:latest">> >>
         /\ TasksOf(n) = {}

\* C16 - Malformed lines yield no task: the manifest of the three lines
\* 'ECR', 'GAR invalid-format' and 'INVALID docker.io/nginx:latest' gives no
\* task and at least two warnings.
C16_MalformedLines ==
  /\ Loaded
  /\ Lines = << <<"ECR">>,
                <<"GAR", " ", "invalid", "-", "format">>,
                <<"INVALID", " ", "docker.io/nginx:latest">> >>
  => Len(images) = 0 /\ Len(warnings) >= 2

\* the lines of the file that are not skipped, in order
RECURSIVE KeptLines(_)
KeptLines(n) ==
  IF n > Len(Lines) THEN <<>>
  ELSE (IF SkippedLine(n) THEN <<>> ELSE <<Lines[n]>>) \o KeptLines(n + 1)

\* a list of tasks without their line numbers
Unnumbered(ims) ==
  [i \in 1..Len(ims) |->
     [destinations |-> ims[i].destinations, source |-> ims[i].source]]

\* C17 - Skipped lines: a line that, trimmed, is empty or starts with '#' or
\* '--' gives no task and no warning, and the tasks and warnings of the
\* other lines are those of the file without the skipped lines, up to the
\* line numbers; each task carries the 1-indexed number of its physical line
\* (skipped and rejected lines counted), and so does each warning; tasks
\* come in increasing line order.
C17_SkippedLines ==
  Loaded =>
    /\ \A n \in 1..Len(Lines) :
         SkippedLine(n) => TasksOf(n) = {} /\ WarningsOf(n) = {}
    /\ LET kept == _load_image_list(KeptLines(1))
       IN /\ Unnumbered(images) = Unnumbered(kept.images)
          /\ Len(warnings) = Len(kept.warnings)
          /\ \A i \in 1..Len(warnings) :
               warnings[i].text = kept.warnings[i].text
    /\ \A t \in Tasks :
         LET n == images[t].line_number
         IN /\ n \in 1..Len(Lines)
            /\ ~SkippedLine(n)
            /\ images[t].destinations = Segments(n)
            /\ images[t].source = Join(Tokens(n)[2])
    /\ \A i \in 1..Len(warnings) :
         LET n == warnings[i].line
         IN n \in 1..Len(Lines) /\ ~SkippedLine(n)
              /\ (Len(Tokens(n)) < 2 <=> warnings[i].text = "Invalid format")
    /\ \A t, u \in Tasks :
         t < u => images[t].line_number < images[u].line_number

\* a section separator, a rejected line and an accepted line, whose task
\* carries the line number 3; the warning carries the line number 2
C17_Witness ==
  /\ Loaded
  /\ Lines = << <<"-", "-", " ", "GAR", " ", "section">>,
                <<"ECR">>,
                <<"ECR", " ", "docker.io/library/nginx:latest">> >>
  /\ Len(images) = 1
  /\ images[1].line_number = 3
  /\ warnings = <<[line |-> 2, text |-> "Invalid format"]>>

\* the keys of the registries map are those of the fields that are set
\* ("set" as the code uses the word: neither None nor empty)
AdapterKeys ==
  /\ "ECR" \in registries
       <=> config.ecr_regions # None /\ Len(config.ecr_regions[1]) > 0
  /\ "GAR" \in registries
       <=> config.gcp_regions # None /\ Len(config.gcp_regions[1]) > 0
  /\ "ACR" \in registries
       <=> config.azure_regions # None /\ Len(config.azure_regions[1]) > 0
  /\ "JFROG" \in registries
       <=> config.jfrog_url # None /\ Len(config.jfrog_url[1]) > 0
  /\ "DOCR" \in registries
       <=> config.docr_token # None /\ Len(config.docr_token[1]) > 0
  /\ registries \subseteq {"ECR", "GAR", "ACR", "JFROG", "DOCR"}

\* C18 - Adapter selection: from the construction of ContainerMirror on
\* the registries map has the key ECR iff ecr_regions is set and non-empty,
\* GAR iff gcp_regions is, ACR iff azure_regions is, JFROG iff jfrog_url is
\* set and DOCR iff docr_token is set, and no other key; the map is the one
\* the constructor built: no step of validate_setup, run or process_images
\* changes it.
C18_AdapterSelection ==
  /\ []AdapterKeys
  /\ [][registries' = registries]_vars

\* process_images has returned in a run with the adapters ECR and JFROG,
\* gcp_regions being an empty list and docr_token an empty string
C18_Witness ==
  /\ main_pc = "returned"
  /\ registries = {"ECR", "JFROG"}
  /\ config.gcp_regions = Some(<<>>)
  /\ config.docr_token = Some("")
  /\ config.azure_regions = None
  /\ results = <<"True", "False">>

\* C19 - Validate mode never mirrors: with --validate the process runs
\* validate_setup (crane, the image list file, authenticate_all, the
\* validate_access of the adapters) and exits; the image list is never
\* loaded, process_images is never called, no task exists, enters the gate
\* or is pushed, and the exit status is non-zero iff validate_setup did not
\* report success (it returned a failure or raised).
C19_ValidateNeverMirrors ==
  validate_only =>
    /\ run_pc \in {"main", "validate_setup", "exited"}
    /\ main_pc = "idle"
    /\ images = <<>> /\ warnings = <<>>
    /\ Tasks = {} /\ pc = <<>> /\ entered = <<>> /\ outs = <<>>
    /\ nattempts = <<>>
    /\ mirror_result = NoMirrorResult
    /\ Len(auth_calls) <= 1
    /\ run_pc # "exited" => exit_code = NotExited /\ error = ""
    /\ run_pc = "exited" =>
         /\ exit_code \in {0, 1}
         /\ exit_code # 0 <=> error # ""
         /\ error = "" => auth_calls = <<TRUE>> /\ image_list_file # None
         /\ auth_calls = <<FALSE>> => error = "Authentication failed"
         /\ image_list_file = None => error # ""

\* a validation that passed, over an image list with a line for a
\* configured adapter: the process has exited with status 0
C19_Witness ==
  /\ validate_only
  /\ run_pc = "exited"
  /\ exit_code = 0
  /\ "ECR" \in registries
  /\ image_list_file =
       Some(<< <<"ECR", " ", "docker.io/library/nginx:latest">> >>)

\* C20 - Exit code: the process exits with 0 iff nothing fatal happened (no
\* failed validation, no failed authentication, no exception caught by
\* main) and, in a mirroring run, the MirrorResult has failed_images = 0;
\* it exits non-zero whenever an image failed to mirror, the authentication
\* failed or the validation failed.
C20_ExitCode ==
  /\ run_pc # "exited" => exit_code = NotExited
  /\ run_pc = "exited" =>
       /\ exit_code \in {0, 1}
       /\ exit_code = 0 <=>
            /\ error = ""
            /\ ~validate_only =>
                 main_pc = "returned" /\ mirror_result.failed_images = 0
       /\ (\E t \in Tasks : results[t] # "True") => exit_code # 0
       /\ FALSE \in Range(auth_calls) => exit_code # 0
       /\ validate_only /\ error # "" => exit_code # 0
       /\ ~validate_only /\ error = "" =>
            mirror_result.failed_images
              = Cardinality({t \in Tasks : results[t] # "True"})

\* a run in which one image was mirrored and one failed has exited with 1
C20_Witness ==
  /\ ~validate_only
  /\ run_pc = "exited"
  /\ error = ""
  /\ mirror_result.successful_images = 1
  /\ mirror_result.failed_images = 1
  /\ exit_code = 1

\* ------------------------------------------------ push_image of an adapter
\* the adapters whose push_image loops over a list of regions
MultiRegion == {"ECR", "GAR", "ACR", "DOCR"}

\* the entries of the configured list whose crane copy succeeded in the
\* push_image call at hand
CopiedRegions ==
  {call.copies[i].region : i \in {j \in 1..Len(call.copies) : call.copies[j].ok}}

\* C21 - Region AND in an adapter: push_image of ECR, GAR, ACR and DOCR
\* returns True iff the copy succeeded for every entry of the configured
\* region list and False otherwise (a region whose provisioning failed is
\* given up without a copy, a region whose copy failed is not counted); the
\* copies made so far stay as they are: nothing of the call undoes one.
C21_RegionAnd ==
  /\ [](call.kind \in MultiRegion =>
          /\ call.pc = "returned" =>
               /\ call.result \in {"true", "false"}
               /\ call.result = "true" <=>
                    CopiedRegions = 1..Len(regions_of(call.kind, config))
          /\ call.pc \notin {"idle", "returned"} => call.result = "none"
          /\ call.total_regions = Len(regions_of(call.kind, config))
               \/ call.pc = "idle"
          /\ \A i \in 1..Len(call.copies) :
               /\ call.copies[i].region \in 1..call.region
               /\ \A j \in 1..Len(call.copies) :
                    i < j => call.copies[i].region < call.copies[j].region)
  /\ [][call'.run = call.run =>
          /\ Len(call'.copies) >= Len(call.copies)
          /\ \A i \in 1..Len(call.copies) : call'.copies[i] = call.copies[i]
          /\ call'.region >= call.region]_vars

\* ECR over two regions: the first was copied, the second was given up at
\* its provisioning, and push_image returned False
C21_Witness ==
  /\ call.kind = "ECR"
  /\ Len(regions_of("ECR", config)) = 2
  /\ call.pc = "returned"
  /\ call.result = "false"
  /\ Len(call.copies) = 1
  /\ call.copies[1].region = 1
  /\ call.copies[1].ok

\* the outcomes of a push_image call that raised
Raised == {"exception", "base_exception"}

\* C22 as stated - in an attempt that has ended, after a destination that is
\* not in the registries map or whose push returned False, push_image has
\* been invoked on every configured destination that comes after it.
C22_AsStated ==
  \A t \in Tasks :
    AttemptEnded(t) =>
      \A i \in 1..Len(outs[t]) :
        outs[t][i] \in {"unknown", "false"} =>
          \A j \in Configured(t) : j > i => Pushed(t, j)

\* C22 - Failure isolation (amended): a destination that is not in the
\* registries map or whose push returns False does not end the attempt: the
\* attempt goes on to the next destination, and it ends before the end of
\* the list only at a push_image call that raises (no destination after
\* that one is pushed in the attempt); a task that has failed, terminally
\* failed or raised holds no permit, so a task waits at the gate only for
\* tasks that are under way, and when process_images returns every task has
\* been admitted once, whatever the others did.
C22_FailureIsolation ==
  /\ \A t \in Tasks :
       /\ Len(outs[t]) <= Len(Dests(t))
       /\ \A i \in 1..Len(outs[t]) :
            /\ outs[t][i] = "unknown" <=> i \notin Configured(t)
            /\ outs[t][i] \in Raised => i = Len(outs[t])
       /\ pc[t] = "push" =>
            idx[t] = Len(outs[t]) + 1 /\ idx[t] \in Configured(t)
       /\ AttemptEnded(t) /\ LastOut(t) \notin Raised =>
            /\ Len(outs[t]) = Len(Dests(t))
            /\ \A j \in Configured(t) : Pushed(t, j)
       /\ AttemptEnded(t) /\ LastOut(t) \in Raised =>
            \A j \in Configured(t) : Pushed(t, j) <=> j <= Len(outs[t])
  /\ \A u \in Tasks :
       pc[u] = "waiting" =>
         Cardinality({v \in Tasks : HoldsPermit(v)}) = config.max_parallel_jobs
  /\ main_pc = "returned" => \A u \in Tasks : entered[u] = 1

\* the first task met a destination without adapter and a push that
\* returned False and still pushed its last destination; it failed
\* terminally, and the task behind it was admitted and mirrored
C22_Witness ==
  /\ Len(images) = 2
  /\ Dests(1) = <<"ACR", "ECR", "GAR">>
  /\ outs[1] = <<"unknown", "false", "true">>
  /\ ReturnedFalse(1)
  /\ entered[2] = 1
  /\ ReturnedTrue(2)

\* the task t names a destination that has no adapter in the registries map
NamesUnconfigured(t) == Configured(t) # 1..Len(Dests(t))

\* the number of attempts a retry budget of max_retries allows
Budget == IF config.max_retries > 0 THEN config.max_retries ELSE 0

\* C23 as stated - a task that names a destination without adapter does not
\* raise, ends False after exactly max_retries attempts, and each of its
\* attempts that has ended has invoked push_image on every configured
\* destination of the task (read for push_image calls that return or raise
\* an Exception).
C23_AsStated ==
  \A t \in Tasks :
    NamesUnconfigured(t) /\ LastOut(t) # "base_exception" =>
      /\ results[t] # "Exception"
      /\ pc[t] = "done" =>
           ReturnedFalse(t) /\ nattempts[t] = config.max_retries
      /\ AttemptEnded(t) => \A j \in Configured(t) : Pushed(t, j)

\* C23 - Unconfigured destination (amended): a task that names a destination
\* without adapter never returns True and lets no Exception out (it raises
\* only when a push_image call raises a BaseException that is not an
\* Exception); otherwise it ends False after exactly max_retries attempts
\* (none for max_retries <= 0), every one of them failed; each attempt
\* marks the destinations without adapter without a call and invokes
\* push_image on the configured destinations in manifest order, on all of
\* them unless a push_image call raises, which ends the attempt there.
C23_UnconfiguredDestination ==
  \A t \in Tasks :
    NamesUnconfigured(t) =>
      /\ results[t] # "True"
      /\ results[t] = "Exception" => LastOut(t) = "base_exception"
      /\ pc[t] = "done" /\ LastOut(t) # "base_exception" =>
           ReturnedFalse(t) /\ nattempts[t] = Budget
      /\ nattempts[t] <= Budget
      /\ pc[t] = "sleep" => nattempts[t] < config.max_retries
      /\ \A i \in 1..Len(outs[t]) :
           /\ outs[t][i] = "unknown" <=> i \notin Configured(t)
           /\ i \in Configured(t) => outs[t][i] \in PushOutcomes
      /\ AttemptEnded(t) =>
           /\ ~AttemptOK(t)
           /\ LastOut(t) \notin Raised =>
                /\ Len(outs[t]) = Len(Dests(t))
                /\ \A j \in Configured(t) : Pushed(t, j)
           /\ LastOut(t) \in Raised =>
                \A j \in Configured(t) : Pushed(t, j) <=> j <= Len(outs[t])

\* a task with a destination without adapter has failed terminally after
\* two attempts: in the first both configured destinations were pushed, the
\* second ended at the first push, which raised
C23_Witness ==
  /\ config.max_retries = 2
  /\ Dests(1) = <<"ECR", "ACR", "GAR">>
  /\ Configured(1) = {1, 3}
  /\ prevTrue[1] = {1, 3}
  /\ outs[1] = <<"exception">>
  /\ ReturnedFalse(1)
  /\ nattempts[1] = 2

\* C24 - Interrupt handling: after a process-level interrupt that arrived
\* during process_images, no task that had not acquired the gate has been
\* admitted, every task that was inside the gate has finished the external
\* call it was waiting for (no push_image call was abandoned), and the
\* aggregate counts are consistent (successful + failed <= total, no task
\* counted twice).
C24_InterruptHandling ==
  exit_code = InterruptStatus /\ main_pc = "cancelled" =>
    /\ \A t \in Tasks :
         /\ pc[t] = "cancelled" /\ nattempts[t] = 0 => entered[t] = 0
         /\ entered[t] <= 1
         /\ "cancelled" \notin Range(outs[t])
    /\ mirror_result.successful_images + mirror_result.failed_images
         <= (IF mirror_result = NoMirrorResult THEN 0
             ELSE mirror_result.total_images)

\* the name of the region a logged copy went to
RegionName(entry) ==
  IF call.kind = "JFROG" THEN ""
  ELSE regions_of(call.kind, config)[entry.region]

\* C25 - Deterministic target naming: two push_image calls of an adapter
\* with the same configuration and the same source compute the same target
\* for each region: a region copied to in the call at hand and in the call
\* before it was copied to the same target reference both times.
C25_DeterministicTargets ==
  \A i \in 1..Len(call.before) :
    \A j \in 1..Len(call.copies) :
      RegionName(call.before[i]) = RegionName(call.copies[j])
        => call.before[i].target = call.copies[j].target

\* ------------------------------------------------- the reference rule
\* source = prefix / repo : tag with p atoms of prefix, free of '/', and a
\* ':' at k, with text on either side of it
HasForm(source, p, k) ==
  /\ p + 1 \in 1..Len(source) /\ source[p + 1] = "/"
  /\ \A i \in 1..p : source[i] # "/"
  /\ k \in (p + 3)..(Len(source) - 1)
  /\ source[k] = ":"

\* the ways to read a source as prefix / repo : tag
Forms(source) ==
  {f \in (0..Len(source)) \X (1..Len(source)) : HasForm(source, f[1], f[2])}

\* the last ':' of a source that holds one
LastColon(source) ==
  CHOOSE k \in 1..Len(source) :
    source[k] = ":" /\ \A j \in (k + 1)..Len(source) : source[j] # ":"

\* a text without its leading segment, up to the first '/', when it has one
WithoutLeadingSegment(a) ==
  IF \E i \in 1..Len(a) : a[i] = "/"
  THEN LET first == CHOOSE i \in 1..Len(a) :
                      a[i] = "/" /\ \A j \in 1..(i - 1) : a[j] # "/"
       IN SubSeq(a, first + 1, Len(a))
  ELSE a

\* the second and the third case of the rule
Fallback(source) ==
  IF \E i \in 1..Len(source) : source[i] = ":"
  THEN [repo |-> WithoutLeadingSegment(SubSeq(source, 1, LastColon(source) - 1)),
        tag |-> SubSeq(source, LastColon(source) + 1, Len(source))]
  ELSE [repo |-> source, tag |-> <<"latest">>]

\* the rule as the claim words it: in the first case the last ':' of the
\* source divides repo and tag
RuleAsStated(source) ==
  IF Forms(source) # {}
  THEN LET f == CHOOSE f \in Forms(source) : TRUE
       IN [repo |-> SubSeq(source, f[1] + 2, LastColon(source) - 1),
           tag |-> SubSeq(source, LastColon(source) + 1, Len(source))]
  ELSE Fallback(source)

\* the rule with the first case read as the pattern reads it: of the ways
\* to read the source as prefix / repo : tag, the one with the longest repo
Rule(source) ==
  IF Forms(source) # {}
  THEN LET f == CHOOSE f \in Forms(source) :
                  \A g \in Forms(source) : g[2] <= f[2]
       IN [repo |-> SubSeq(source, f[1] + 2, f[2] - 1),
           tag |-> SubSeq(source, f[2] + 1, Len(source))]
  ELSE Fallback(source)

\* C26 as stated - for every source, _parse_image returns the (repo, tag) of
\* the three-case rule whose first case divides at the last ':'.
C26_AsStated ==
  call.pc # "idle" =>
    [repo |-> call.repo, tag |-> call.tag] = RuleAsStated(call.source)

\* C26 - Image-reference decomposition (amended): for every source,
\* _parse_image returns (repo, tag) of the three-case rule: if the source
\* has the form <prefix>/<repo>:<tag> with prefix free of '/' and repo and
\* tag non-empty, repo is the text between the first '/' and the last ':'
\* that has text after it and tag is the text after that ':' (repo is the
\* longest possible); otherwise, if it holds a ':', tag is the text after
\* the last ':' and repo the remainder without its leading segment up to
\* the first '/'; otherwise repo is the whole source and tag is 'latest'.
C26_ImageReference ==
  call.pc # "idle" =>
    [repo |-> call.repo, tag |-> call.tag] = Rule(call.source)

\* the source '/b::' has been parsed into repo 'b' and tag ':'
C26_Witness ==
  /\ call.pc = "returned"
  /\ call.source = <<"/", "b", ":", ":">>
  /\ call.repo = <<"b">>
  /\ call.tag = <<":">>

\* ------------------------------------------------------------------- C27
\* what a task is to itself: its place in the retry loop (the wait at the
\* gate taken as one place), its loop variables, its attempts, its sleeps
\* and its outcome
Own(t) ==
  [pc |-> IF pc[t] \in {"none", "created", "waiting", "granted"}
          THEN "before" ELSE pc[t],
   attempt |-> attempt[t],
   idx |-> idx[t],
   success |-> success[t],
   outs |-> outs[t],
   nattempts |-> nattempts[t],
   delays |-> delays[t],
   result |-> results[t]]

\* destination j of task t has an adapter
HasAdapter(t, j) == Strip(Dests(t)[j]) \in registries

\* the first destination from i on that is pushed, past the end without one
Upcoming(t, i) ==
  LET S == {j \in i..Len(Dests(t)) : HasAdapter(t, j)}
  IN IF S = {} THEN Len(Dests(t)) + 1 ELSE Min(S)

\* attempt a of task t goes on from destination i with the flag s and the
\* outcomes o, told from the task's own state v
OwnAdvance(t, v, a, i, s, o, began) ==
  LET k == Upcoming(t, i)
      s2 == s /\ k = i
      w == [v EXCEPT !.attempt = a, !.idx = k, !.success = s2,
                     !.outs = o \o [j \in 1..(k - i) |-> "unknown"],
                     !.nattempts = IF began THEN @ + 1 ELSE @]
  IN IF k <= Len(Dests(t)) THEN [w EXCEPT !.pc = "push"]
     ELSE IF s2 THEN [w EXCEPT !.pc = "done", !.result = "True"]
     ELSE IF a < config.max_retries
          THEN [w EXCEPT !.pc = "sleep",
                         !.delays = Append(@, config.retry_delay)]
          ELSE [w EXCEPT !.pc = "done", !.result = "False"]

OwnBegin(t, v, a) ==
  IF a <= config.max_retries
  THEN OwnAdvance(t, v, a, 1, TRUE, <<>>, TRUE)
  ELSE [v EXCEPT !.pc = "done", !.result = "False"]

OwnPush(t, v, o) ==
  LET w == [v EXCEPT !.outs = Append(@, o)]
  IN CASE o = "true" ->
            OwnAdvance(t, v, v.attempt, v.idx + 1, v.success, w.outs, FALSE)
       [] o = "false" ->
            OwnAdvance(t, v, v.attempt, v.idx + 1, FALSE, w.outs, FALSE)
       [] o = "exception" ->
            IF v.attempt < config.max_retries
            THEN [w EXCEPT !.pc = "sleep",
                           !.delays = Append(@, config.retry_delay)]
            ELSE [w EXCEPT !.pc = "done", !.result = "False"]
       [] o = "base_exception" ->
            [w EXCEPT !.pc = "done", !.result = "Exception"]

\* where the task can get to in one step, by its own state, the outcome of
\* its own push call and (max_retries, retry_delay)
OwnNext(t, v) ==
  CASE v.pc = "before" -> {OwnBegin(t, v, 1)}
    [] v.pc = "push" -> {OwnPush(t, v, o) : o \in PushOutcomes}
    [] v.pc = "sleep" -> {OwnBegin(t, v, v.attempt + 1)}
    [] OTHER -> {}

\* C27 - Task independence: the attempts, the retry sleeps and the outcome
\* of a task depend only on the outcomes of its own push calls and on
\* (max_retries, retry_delay): a step that changes them is a step of that
\* task alone, it leaves the attempts, sleeps and outcome of every other
\* task as they are, and what it changes them to is told by the task's own
\* destinations, its own state and the outcome of its own push call,
\* whatever the other tasks of the run are and however they fail, raise or
\* interleave.
C27_TaskIndependence ==
  [][\A t \in Tasks :
       Own(t)' # Own(t) =>
         /\ Own(t)' \in OwnNext(t, Own(t))
         /\ \A u \in Tasks \ {t} : Own(u)' = Own(u)]_vars

\* three tasks of one run took turns: one succeeded at its first attempt,
\* one used every attempt and gave up after a push that raised, one raised
\* out of its coroutine
C27_Witness ==
  \E t, u, w \in Coroutines :
    /\ results[t] = "True" /\ nattempts[t] = 1 /\ delays[t] = <<>>
    /\ results[u] = "False" /\ nattempts[u] = config.max_retries
    /\ Len(delays[u]) >= 1 /\ LastOut(u) = "exception"
    /\ results[w] = "Exception"
    /\ config.max_parallel_jobs >= 2

\* ------------------------------------------------------------------- C28
\* how often the list d names tag
Times(d, tag) == Cardinality({i \in 1..Len(d) : d[i] = tag})

\* how often the latest attempt of t invoked push_image for tag
PushedTimes(t, tag) ==
  Cardinality({i \in 1..Len(Dests(t)) : Dests(t)[i] = tag /\ Pushed(t, i)})

\* the permutations of 1..n
Perms(n) ==
  {p \in [1..n -> 1..n] : \A i, j \in 1..n : p[i] = p[j] => i = j}

\* the latest attempts of t and u met the same outcome at the same
\* destination, the list of u being the list of t in another order: entry i
\* of t is entry p[i] of u, and f[i] is what its push does when called
SameOutcomes(t, u) ==
  /\ Len(Dests(t)) = Len(Dests(u))
  /\ \E p \in Perms(Len(Dests(t))) :
       \E f \in [1..Len(Dests(t)) -> PushOutcomes] :
         \A i \in 1..Len(Dests(t)) :
           /\ Dests(u)[p[i]] = Dests(t)[i]
           /\ i <= Len(outs[t]) /\ i \in Configured(t) => outs[t][i] = f[i]
           /\ p[i] <= Len(outs[u]) /\ p[i] \in Configured(u) =>
                outs[u][p[i]] = f[i]

\* C28 as stated - within one attempt there is one push_image call per
\* listed entry: a tag with an adapter that the task lists k times has been
\* pushed k times when the attempt is over.
C28_AsStated ==
  \A t \in Tasks :
    AttemptEnded(t) =>
      \A tag \in registries :
        PushedTimes(t, tag) = Times(Dests(t), tag)

\* C28 - Destination order and duplicates (amended): within one attempt
\* push_image calls are issued one at a time in the manifest order of the
\* task's destinations, one call per listed entry that has an adapter, up
\* to the end of the list or to a call that raises; so a tag with an
\* adapter that is listed k times is pushed k times in an attempt in which
\* no push raises.  Whether the attempt succeeds is the same for every
\* permutation of the destination list given the same per-destination
\* outcomes (True, False or a raise).
C28_DestinationOrder ==
  /\ [](\A t \in Tasks :
          nattempts[t] >= 1 =>
            /\ pc[t] = "push" =>
                 idx[t] = Len(outs[t]) + 1 /\ idx[t] \in Configured(t)
            /\ \A i \in 1..Len(outs[t]) :
                 /\ (outs[t][i] \in PushOutcomes) = (i \in Configured(t))
                 /\ outs[t][i] \in Raised => i = Len(outs[t])
            /\ AttemptEnded(t) /\ LastOut(t) \notin Raised =>
                 \A tag \in registries :
                   PushedTimes(t, tag) = Times(Dests(t), tag)
            /\ \A u \in Tasks :
                 AttemptEnded(t) /\ AttemptEnded(u) /\ SameOutcomes(t, u) =>
                   ReturnedTrue(t) = ReturnedTrue(u))
  /\ [][\A t \in Tasks :
          pc[t] = "push" /\ pc'[t] = "push" /\ nattempts'[t] = nattempts[t]
            => idx'[t] >= idx[t]]_vars

\* both tasks list ECR twice and pushed it twice in one attempt; the push
\* that returned False was the second of the one and the first of the other
C28_Witness ==
  /\ Len(images) = 2
  /\ Dests(1) = <<"ECR", "ECR">> /\ Dests(2) = <<"ECR", "ECR">>
  /\ "ECR" \in registries
  /\ AttemptEnded(1) /\ AttemptEnded(2)
  /\ outs[1] = <<"true", "false">> /\ outs[2] = <<"false", "true">>
  /\ PushedTimes(1, "ECR") = 2 /\ PushedTimes(2, "ECR") = 2
  /\ SameOutcomes(1, 2)

\* ------------------------------------------------------------------- C29
\* the checks of validate_setup in their order: the crane tool, the image
\* list file, authenticate_all, and validate_access of every adapter of the
\* registries map in the order the constructor put them in
CheckOrder ==
  <<"crane", "image_list_file", "authenticate_all">>
    \o SelectSeq(valid_targets, LAMBDA k : k \in registries)

\* C29 - validate_setup checks in a fixed order - crane tool, image list
\* file exists, authenticate_all, then validate_access of each initialized
\* adapter - and the failure of the first check that fails is what comes
\* out of it, without the later checks being run (a missing crane tool
\* reports 'crane tool not installed' and authentication is not attempted;
\* a missing file reports 'Image list file not found'); it reports success
\* iff every check passes.
C29_ValidateOrder ==
  /\ ~validate_only => checks = <<>>
  /\ validate_only =>
       \A out \in [auth_tasks(config) -> AuthOutcomes] :
         \A access \in [registries -> AccessOutcomes] :
           LET r == validate_setup("FileNotFoundError", out, access)
           IN /\ ~r.raised /\ ~r.success
              /\ r.message = "crane tool not installed"
              /\ r.auth_calls = <<>>
              /\ r.checks = <<[check |-> "crane", passed |-> FALSE]>>
  /\ validate_only /\ run_pc # "exited" => checks = <<>>
  /\ validate_only /\ run_pc = "exited" =>
       LET n == Len(checks)
       IN /\ n \in 1..Len(CheckOrder)
          /\ \A i \in 1..n : checks[i].check = CheckOrder[i]
          /\ \A i \in 1..(n - 1) : checks[i].passed
          /\ checks[n].passed => n = Len(CheckOrder)
          /\ exit_code = 0 <=> n = Len(CheckOrder) /\ checks[n].passed
          /\ exit_code # 0 => exit_code = 1
          /\ auth_calls # <<>> <=> n >= 3
          /\ image_list_file = None => n <= 2
          /\ ~checks[n].passed =>
               /\ n = 1 => error \in {"crane tool not installed",
                                       "crane tool not found", "OSError"}
               /\ n = 2 => image_list_file = None
                           /\ error = "Image list file not found"
               /\ n = 3 => error = "Authentication failed"
                           /\ auth_calls = <<FALSE>>
               /\ n >= 4 => error = checks[n].check \o " validation failed"
                            /\ auth_calls = <<TRUE>>

\* crane, the file and the authentication passed, validate_access of ECR
\* passed and the one of GAR failed
C29_Witness ==
  /\ validate_only
  /\ run_pc = "exited"
  /\ registries = {"ECR", "GAR"}
  /\ Len(checks) = 5
  /\ checks[4] = [check |-> "ECR", passed |-> TRUE]
  /\ checks[5] = [check |-> "GAR", passed |-> FALSE]
  /\ error = "GAR validation failed"
  /\ exit_code = 1

\* ------------------------------------------------------------------- C30
\* the tasks that hold a permit: inside the gated region, a task that a
\* release has handed the permit to counted as inside
Holders == {t \in Tasks : HoldsPermit(t)}

\* C30 - Gate permit conservation: in every reachable state the number of
\* free semaphore permits plus the number of tasks inside the gated region
\* (a task that has been handed the permit counted as inside) equals
\* max_parallel_jobs; a task gives its permit up only by leaving the region
\* for good, on every exit path (success, terminal failure or an error
\* escaping the retry loop), and never holds one again, so when
\* process_images returns all max_parallel_jobs permits are free again.
C30_PermitConservation ==
  /\ [](/\ sem_value >= 0
        /\ sem_value + Cardinality(Holders) = config.max_parallel_jobs
        /\ \A t \in Tasks : pc[t] = "done" => entered[t] = 1
        /\ main_pc = "returned" =>
             /\ sem_value = config.max_parallel_jobs
             /\ sem_waiters = <<>>
             /\ Holders = {})
  /\ [][\A t \in Tasks :
          /\ HoldsPermit(t) /\ ~HoldsPermit(t)' =>
               /\ pc'[t] = "done"
               /\ results'[t] \in {"True", "False", "Exception"}
          /\ entered'[t] > entered[t] /\ pc'[t] = "done" =>
               sem_value' + Cardinality(Holders') = sem_value
                                                      + Cardinality(Holders)
          /\ pc[t] = "done" => pc'[t] = "done" /\ ~HoldsPermit(t)']_vars

\* process_images has returned from three tasks behind two permits: one
\* returned True, one returned False, one raised, and both permits are free
C30_Witness ==
  /\ main_pc = "returned"
  /\ config.max_parallel_jobs = 2
  /\ Len(images) = 3
  /\ sem_value = 2
  /\ \E t, u, v \in Tasks :
       /\ results[t] = "True"
       /\ results[u] = "False"
       /\ results[v] = "Exception"
  /\ \A t \in Tasks : entered[t] = 1

\* ------------------------------------------------------------------- C31
\* the tasks that have got into the gated region and have no terminal
\* outcome yet
StartedUnresolved == {t \in Tasks : entered[t] >= 1 /\ pc[t] # "done"}

\* C31 - The gate is held across the whole retry loop: a task acquires a
\* permit once, before its first attempt, and keeps it through every
\* attempt and every retry_delay sleep until its terminal outcome; so at
\* most max_parallel_jobs tasks are ever started-but-unresolved, and a task
\* sleeping between attempts keeps waiting tasks from being admitted: a
\* step in which no task reaches its terminal outcome and none comes in
\* frees no permit and hands none to a waiting task.
C31_GateHeld ==
  /\ [](/\ \A t \in Tasks :
             /\ entered[t] \in {0, 1}
             /\ nattempts[t] >= 1 => entered[t] = 1
             /\ pc[t] \in {"push", "sleep"} <=> t \in StartedUnresolved
             /\ pc[t] = "waiting" =>
                  sem_value = 0 /\ nattempts[t] = 0 /\ entered[t] = 0
        /\ Cardinality(StartedUnresolved) <= config.max_parallel_jobs
        /\ (\E t \in Tasks : pc[t] = "waiting") =>
             Cardinality({t \in Tasks : HoldsPermit(t)})
               = config.max_parallel_jobs)
  /\ [][/\ \A t \in Tasks :
             /\ entered'[t] >= entered[t]
             /\ entered'[t] > entered[t] => nattempts[t] = 0
             /\ nattempts'[t] > nattempts[t] => entered'[t] = 1
        /\ (\A t \in Tasks : pc'[t] = "done" => pc[t] = "done")
             /\ entered' = entered =>
               /\ sem_value' = sem_value
               /\ \A u \in Tasks : pc'[u] = "granted" => pc[u] = "granted"]_vars

\* one permit: the first task failed an attempt, slept and is in its second
\* attempt, and the second task is still waiting at the gate
C31_Witness ==
  /\ config.max_parallel_jobs = 1
  /\ Len(images) >= 2
  /\ pc[1] = "push" /\ nattempts[1] = 2 /\ Len(delays[1]) = 1
  /\ entered[1] = 1
  /\ pc[2] = "waiting"
  /\ sem_value = 0

\* ------------------------------------------------------------------- C32
\* the push_image call that t is waiting for raises an Exception in this
\* step
PushRaises(t) ==
  /\ pc[t] = "push"
  /\ Len(outs'[t]) >= idx[t]
  /\ Len(outs[t]) < idx[t]
  /\ outs'[t][idx[t]] = "exception"

\* C32 - An error raised by a push aborts the rest of that attempt: if
\* push_image raises (an Exception) for the i-th destination of a task, no
\* push is invoked for the destinations after i in that attempt, the
\* attempt is counted as failed (a sleep and another attempt when one
\* remains, False when none does), and the following attempt starts again
\* from the first destination.
C32_RaiseAbortsAttempt ==
  /\ [](\A t \in Tasks :
          LastOut(t) = "exception" =>
            /\ pc[t] \in {"sleep", "done"}
            /\ ~ReturnedTrue(t)
            /\ \A i \in 1..Len(Dests(t)) : i > Len(outs[t]) => ~Pushed(t, i)
            /\ pc[t] = "done" =>
                 ReturnedFalse(t) /\ nattempts[t] = config.max_retries)
  /\ [][\A t \in Tasks :
          /\ PushRaises(t) =>
               /\ outs'[t] = Append(outs[t], "exception")
               /\ Len(outs'[t]) = idx[t]
               /\ nattempts'[t] = nattempts[t]
               /\ IF attempt[t] < config.max_retries
                  THEN /\ pc'[t] = "sleep"
                       /\ delays'[t] = Append(delays[t], config.retry_delay)
                  ELSE /\ pc'[t] = "done" /\ results'[t] = "False"
                       /\ delays'[t] = delays[t]
          /\ pc[t] = "sleep" /\ LastOut(t) = "exception" /\ pc'[t] # "sleep"
               =>
               /\ nattempts'[t] = nattempts[t] + 1
               /\ pc'[t] = "push" =>
                    /\ idx'[t] \in Configured(t)
                    /\ \A i \in Configured(t) : idx'[t] <= i
                    /\ Len(outs'[t]) = idx'[t] - 1]_vars

\* both destinations have an adapter: the first attempt pushed both and
\* failed with the first push True, the second attempt began at the first
\* destination again, whose push raised, and the task returned False
\* without a second push to GAR
C32_Witness ==
  \E t \in Tasks :
    /\ Dests(t) = <<"ECR", "GAR">>
    /\ Configured(t) = {1, 2}
    /\ config.max_retries = 2
    /\ nattempts[t] = 2
    /\ prevTrue[t] = {1}
    /\ outs[t] = <<"exception">>
    /\ ReturnedFalse(t)

\* ------------------------------------------------------------------- C33
\* every task has its terminal outcome and is out of the gate
AllResolved ==
  \A t \in Tasks :
    /\ pc[t] = "done"
    /\ results[t] \in {"True", "False", "Exception"}
    /\ ~HoldsPermit(t)
    /\ \A i \in 1..Len(sem_waiters) : sem_waiters[i] # t

\* C33 - Pipeline termination: for any finite task list, max_parallel_jobs
\* >= 1 and any max_retries, if every push call and every sleep eventually
\* returns then under fair scheduling process_images eventually returns a
\* MirrorResult, and it does so only after every task has reached its
\* terminal outcome and left the gate.
C33_Termination ==
  /\ config.max_parallel_jobs >= 1 => <>(main_pc = "returned")
  /\ [](main_pc = "returned" =>
          /\ AllResolved
          /\ mirror_result # NoMirrorResult
          /\ mirror_result.total_images = Len(images)
          /\ sem_value = config.max_parallel_jobs)
  /\ [](main_pc # "returned" => mirror_result = NoMirrorResult)
  /\ [][main_pc' = "returned" /\ main_pc # "returned" => AllResolved]_vars

\* process_images has returned from two tasks behind one permit with a
\* retry budget of two, after a task had used both attempts
C33_Witness ==
  /\ main_pc = "returned"
  /\ Len(images) = 2
  /\ config.max_parallel_jobs = 1
  /\ config.max_retries = 2
  /\ mirror_result.total_images = 2
  /\ \E t \in Tasks : nattempts[t] = 2 /\ Len(delays[t]) = 1
  /\ AllResolved

\* ------------------------------------------------------------------- C34
\* C34 - Zero retry budget: when max_retries <= 0 no push_image is ever
\* invoked (no attempt is begun and no sleep made), every task that
\* resolves resolves to terminal failure, and process_images returns
\* successful_images = 0 and failed_images = total_images, even for tasks
\* whose push would have succeeded.
C34_ZeroRetryBudget ==
  config.max_retries <= 0 =>
    /\ \A t \in Tasks :
         /\ pc[t] \notin {"push", "sleep"}
         /\ nattempts[t] = 0 /\ attempt[t] = 0
         /\ outs[t] = <<>> /\ delays[t] = <<>>
         /\ \A i \in 1..Len(Dests(t)) : ~Pushed(t, i)
         /\ pc[t] = "done" => results[t] = "False" /\ entered[t] = 1
         /\ pc[t] # "done" => results[t] = NoResult
    /\ main_pc = "returned" =>
         /\ mirror_result.total_images = Len(images)
         /\ mirror_result.successful_images = 0
         /\ mirror_result.failed_images = Len(images)
         /\ \A t \in Tasks : ReturnedFalse(t)

\* process_images has returned from two tasks with an adapter for each of
\* their destinations and a retry budget of 0: both failed, nothing pushed
C34_Witness ==
  /\ config.max_retries = 0
  /\ config.max_parallel_jobs = 1
  /\ main_pc = "returned"
  /\ Len(images) = 2
  /\ \A t \in Tasks :
       /\ \A i \in 1..Len(Dests(t)) : Dests(t)[i] \in registries
       /\ entered[t] = 1 /\ nattempts[t] = 0 /\ outs[t] = <<>>
  /\ mirror_result =
       [total_images |-> 2, successful_images |-> 0, failed_images |-> 2]

\* ------------------------------------------------------------------- C35
\* the adapters that provision before they copy
Provisioning == {"ECR", "GAR", "ACR"}

\* the place of a command in the loop body
Rank(step) ==
  CASE step = "identity" -> 1
    [] step = "describe" -> 2
    [] step = "create" -> 3
    [] step = "login" -> 4
    [] step = "copy" -> 5

\* before command i of the log L the repository was found or was created
Provisioned(L, i) ==
  \E j \in 1..(i - 1) : L[j].step \in {"describe", "create"} /\ L[j].ok

\* C35 - Per-region step order in a provisioning adapter (ECR, GAR, ACR):
\* for each configured region, in configuration order, the create step is
\* invoked only when the describe/show step failed, the copy is invoked at
\* most once and only after provisioning (and, for ACR, login) succeeded,
\* and a failure at any step of one region skips that region's copy but
\* never stops the processing of the following regions: the loop goes on
\* with the next region, and push_image returns only from the last one.
C35_StepOrder ==
  /\ [](call.kind \in Provisioning =>
          LET L == call.steps
              n == Len(L)
          IN /\ \A i \in 1..n :
                  /\ L[i].region = L[1].region
                  /\ L[i].region \in 1..call.total_regions
                  /\ i = 1 => L[i].step = first_step(call.kind)
                  /\ i < n => Rank(L[i].step) < Rank(L[i + 1].step)
                  /\ L[i].step = "create" =>
                       i > 1 /\ L[i - 1].step = "describe" /\ ~L[i - 1].ok
                  /\ L[i].step = "describe" /\ ~L[i].ok /\ i < n =>
                       L[i + 1].step = "create"
                  /\ L[i].step = "login" =>
                       call.kind = "ACR" /\ Provisioned(L, i)
                  /\ L[i].step = "copy" =>
                       /\ i = n
                       /\ Provisioned(L, i)
                       /\ \A j \in 1..(i - 1) :
                            L[j].step # "describe" => L[j].ok
                       /\ call.kind = "ACR" =>
                            L[i - 1].step = "login" /\ L[i - 1].ok
                       /\ call.kind = "ECR" =>
                            L[1].step = "identity" /\ L[1].ok
                  /\ L[i].step \in {"identity", "create", "login"}
                       /\ ~L[i].ok => i = n
             /\ \A i, j \in 1..Len(call.copies) :
                  call.copies[i].region = call.copies[j].region => i = j
             /\ call.pc = "create" =>
                  n >= 1 /\ L[n].step = "describe" /\ ~L[n].ok
                  /\ L[n].region = call.region
             /\ call.pc = "copy" =>
                  Provisioned(L, n + 1) /\ L[n].ok /\ L[n].region = call.region)
  /\ [][call.kind \in Provisioning /\ call'.run = call.run /\ call' # call =>
          LET L == call'.steps
              last == L[Len(L)]
              ends == \/ last.step = "copy"
                      \/ last.step # "describe" /\ ~last.ok
          IN /\ Len(L) >= 1
             /\ last.region = call.region /\ last.step = call.pc
             /\ call'.region \in {call.region, call.region + 1}
             /\ ~ends => call'.region = call.region /\ call'.pc # "returned"
             /\ ends /\ call.region < call.total_regions =>
                  /\ call'.region = call.region + 1
                  /\ call'.pc = first_step(call.kind)
             /\ ends /\ call.region = call.total_regions =>
                  call'.pc = "returned"
             /\ call'.pc = "returned" =>
                  call.region = call.total_regions]_vars

\* ACR with two regions: the first one was given up at a step that failed
\* and nothing was copied to it; in the second one show, login and copy
\* succeeded; push_image returned False
C35_Witness ==
  /\ call.kind = "ACR"
  /\ call.pc = "returned"
  /\ call.total_regions = 2
  /\ call.steps = <<[region |-> 2, step |-> "describe", ok |-> TRUE],
                    [region |-> 2, step |-> "login", ok |-> TRUE],
                    [region |-> 2, step |-> "copy", ok |-> TRUE]>>
  /\ Len(call.copies) = 1
  /\ call.copies[1].region = 2 /\ call.copies[1].ok
  /\ call.result = "false"
====
